---- MODULE Spec2Model ----
(***************************************************************************)
(* Model of the rusty_2 development agent: the run_task loop of            *)
(* backend/dev_agent.py, the local tool executor of backend/local_tools.py *)
(* and the rate-limited ModelClient of common/llm_client.py.               *)
(*                                                                         *)
(* Text is modelled as a sequence of tokens.  Text that matters for a      *)
(* substring test is spelled character by character; fixed text that no    *)
(* test looks into is one opaque token.                                    *)
(***************************************************************************)
EXTENDS Integers, Sequences, FiniteSets, TLC

\* ------------------------------------------------------------------ bounds
\* largest step budget (config.max_steps) tried
MaxSteps == 2
\* most tool calls the scripted model issues in one run
MaxCalls == 2
\* most components of a path argument of a local tool
MaxPathLen == 2
\* most calls made to the local tool executor
MaxOps == 2
\* number of tasks that call generate on one ModelClient
NumCallers == 2
\* most generation requests sent to the backend
MaxRequests == 3
\* last tick of the clock
MaxTime == 4
\* most operations made on one conversation
MaxConvOps == 4

\* ------------------------------------------------------------------ text
RECURSIVE Join(_, _)
\* sep.join(parts): parts is a sequence of token sequences
Join(parts, sep) ==
    IF parts = <<>> THEN <<>>
    ELSE IF Len(parts) = 1 THEN parts[1]
    ELSE parts[1] \o sep \o Join(Tail(parts), sep)

UpperToLower ==
    [A |-> "a", B |-> "b", C |-> "c", D |-> "d", E |-> "e", F |-> "f",
     G |-> "g", H |-> "h", I |-> "i", J |-> "j", K |-> "k", L |-> "l",
     M |-> "m", N |-> "n", O |-> "o", P |-> "p", Q |-> "q", R |-> "r",
     S |-> "s", T |-> "t", U |-> "u", V |-> "v", W |-> "w", X |-> "x",
     Y |-> "y", Z |-> "z"]

\* str.lower()
Lower(s) ==
    [i \in 1..Len(s) |-> IF s[i] \in DOMAIN UpperToLower THEN UpperToLower[s[i]] ELSE s[i]]

\* Python's  p in s  on strings: p is a contiguous part of s
Contains(s, p) ==
    \E i \in 0..(Len(s) - Len(p)) : SubSeq(s, i + 1, i + Len(p)) = p

\* str.startswith
StartsWith(s, p) ==
    Len(p) <= Len(s) /\ SubSeq(s, 1, Len(p)) = p

S_ok == <<"o", "k">>
S_Task == <<"T", "a", "s", "k">>
S_completed == <<"c", "o", "m", "p", "l", "e", "t", "e", "d">>
S_TaskCompleted == <<"T", "a", "s", "k", " ", "c", "o", "m", "p", "l", "e", "t", "e", "d">>
S_task_completed == <<"t", "a", "s", "k", " ", "c", "o", "m", "p", "l", "e", "t", "e", "d">>

\* the completion phrases of run_task
completion_phrases ==
    { <<"i", " ", "h", "a", "v", "e", " ", "c", "o", "m", "p", "l", "e", "t", "e", "d", " ", "t", "h", "e", " ", "t", "a", "s", "k">>,
      <<"t", "a", "s", "k", " ", "c", "o", "m", "p", "l", "e", "t", "e", "d">>,
      <<"t", "a", "s", "k", " ", "i", "s", " ", "c", "o", "m", "p", "l", "e", "t", "e">>,
      <<"i", " ", "h", "a", "v", "e", " ", "f", "i", "n", "i", "s", "h", "e", "d">>,
      <<"t", "a", "s", "k", " ", "f", "i", "n", "i", "s", "h", "e", "d">>,
      <<"c", "o", "m", "p", "l", "e", "t", "e", "d", " ", "t", "h", "e", " ", "t", "a", "s", "k">> }

\* ------------------------------------------------------------------ messages
Absent == "<absent>"

\* a raw content value: None, a string, or a list of content parts
RawNone == [kind |-> "none", s |-> <<>>, parts |-> <<>>]
RawStr(s) == [kind |-> "str", s |-> s, parts |-> <<>>]
RawList(parts) == [kind |-> "list", s |-> <<>>, parts |-> parts]
TextPart(s) == [type |-> "text", text |-> s]
ImagePart == [type |-> "image", text |-> <<>>]

\* str(part) of a part that is not a text part
PartStr(part) == <<"{'type': 'image'}">>

\* the flattening of a list of content parts, before the join
FlattenParts(parts) ==
    [i \in 1..Len(parts) |->
        IF parts[i].type = "text" THEN parts[i].text ELSE PartStr(parts[i])]

\* (mutant) a validation that lets one more role through
valid_roles_Wide == {"system", "user", "assistant", "tool", "function"}

\* messages.message_from_dict: validation and normalisation of one message
valid_roles == {"system", "user", "assistant", "tool"}

\* (mutant) a normalisation that joins the parts of a list without a separator
message_from_dict_NoSeparator(data) ==
    IF data.role \notin valid_roles \/ ~data.has_content
    THEN [ok |-> FALSE, msg |-> Absent]
    ELSE [ok |-> TRUE,
          msg |-> [role |-> data.role,
                   content |-> IF data.content.kind = "list"
                               THEN Join(FlattenParts(data.content.parts), <<>>)
                               ELSE IF data.content.kind = "none" THEN <<"None">>
                               ELSE data.content.s,
                   tool_call_id |-> data.tool_call_id,
                   name |-> data.name]]

message_from_dict(data) ==
    IF data.role \notin valid_roles \/ ~data.has_content
    THEN [ok |-> FALSE, msg |-> Absent]
    ELSE [ok |-> TRUE,
          msg |-> [role |-> data.role,
                   content |-> IF data.content.kind = "list"
                               THEN Join(FlattenParts(data.content.parts), <<"\n">>)
                               ELSE IF data.content.kind = "none" THEN <<"None">>
                               ELSE data.content.s,
                   tool_call_id |-> data.tool_call_id,
                   name |-> data.name]]

\* a message dictionary as the agent builds it
Dict(role, text) ==
    [role |-> role, has_content |-> TRUE, content |-> RawStr(text),
     tool_call_id |-> Absent, name |-> Absent, tool_calls |-> <<>>]

user_message(content) == Dict("user", content)
system_message(content) == Dict("system", content)

\* messages.tool_message: tool output is stored under the assistant role
tool_message(content, tool_call_id) ==
    Dict("assistant", <<"Tool result:\n">> \o content)

\* Conversation.append of one message to the stored list (no observer is
\* registered on the conversation run_task builds)
ConversationAppend(messages, data) ==
    LET m == message_from_dict(data)
    IN IF m.ok THEN [ok |-> TRUE, messages |-> Append(messages, m.msg)]
       ELSE [ok |-> FALSE, messages |-> messages]

\* ------------------------------------------------------------------ transport
RECURSIVE Split(_, _)
\* str.split(d): the parts of s between the occurrences of the token d
Split(s, d) ==
    IF \A i \in 1..Len(s) : s[i] # d THEN <<s>>
    ELSE LET i == CHOOSE k \in 1..Len(s) : s[k] = d /\ \A j \in 1..(k - 1) : s[j] # d
         IN <<SubSeq(s, 1, i - 1)>> \o Split(SubSeq(s, i + 1, Len(s)), d)

Url_path == <<"stdio://", "python", ":", "-m", ":", "mcp_server_git", ":", "--repository", ":", "C", ":", "/repo">>
Url_no_tail == <<"stdio://", "python", ":", "-m", ":", "mcp_server_git", ":", "--repository">>
Url_http == <<"http://", "host">>

\* the addresses tried as config.git_mcp_url
BaseUrls == {Url_path, Url_no_tail, Url_http}

\* (mutant) a parsing that splits the whole address at every ":"
GetTransportContext_SplitAll(url) ==
    IF ~StartsWith(url, <<"stdio://">>)
    THEN [raises |-> TRUE, command |-> <<>>, args |-> <<>>]
    ELSE LET parts == Split(SubSeq(url, 2, Len(url)), ":")
         IN [raises |-> FALSE, command |-> parts[1], args |-> SubSeq(parts, 2, Len(parts))]

\* MCPToolClient._get_transport_context: the launch parameters of the child
\* process, or raises for an address that is not a stdio address
GetTransportContext(url) ==
    IF ~StartsWith(url, <<"stdio://">>)
    THEN [raises |-> TRUE, command |-> <<>>, args |-> <<>>]
    ELSE LET command_str == SubSeq(url, 2, Len(url))
             parts == Split(command_str, ":")
         IN [raises |-> FALSE,
             command |-> parts[1],
             args |-> IF Len(parts) = 1 THEN <<>>
                      ELSE IF Len(parts) >= 5
                              /\ SubSeq(parts, 2, 4) = << <<"-m">>, <<"mcp_server_git">>, <<"--repository">> >>
                      THEN << <<"-m">>, <<"mcp_server_git">>, <<"--repository">>,
                              Join(SubSeq(parts, 5, Len(parts)), <<":">>) >>
                      ELSE SubSeq(parts, 2, Len(parts))]

\* the tools the provider reports, and the names the local executor serves
ProviderTools == <<"git_status">>
LocalToolNames ==
    {"list_files", "read_file", "apply_unified_diff", "write_file", "run_tests", "run_linter"}

\* config.allowed_tools: None, or a set of names
AllowAll == [set |-> FALSE, names |-> {}]

\* (mutant) a list_tools that returns the whole catalog of the provider
ListToolsFilter_Unfiltered(tools, allowed) == tools

\* MCPToolClient.list_tools: the provider's tools, filtered by the allow-list
ListToolsFilter(tools, allowed) ==
    SelectSeq(tools, LAMBDA n : ~allowed.set \/ n \in allowed.names)

\* ------------------------------------------------------------------ agent step
\* run_step's normalisation of the assistant payload's content
NormalizeAssistantContent(raw) ==
    IF raw.kind = "none" THEN <<>>
    ELSE IF raw.kind = "list" THEN Join(FlattenParts(raw.parts), <<"\n">>)
    ELSE raw.s

\* the names the scripted model calls: a remote tool, a local tool, an unknown one
CallNames == {"git_status", "read_file", "bogus"}

CallIds == <<"call_1", "call_2", "call_3", "call_4", "call_5", "call_6">>

\* the values of function.arguments and what json.loads makes of a text: a
\* dict with its pairs in order, a str, an int, a list, None; absent: the
\* function has no arguments key
ArgAbsent == [type |-> "absent", pairs |-> <<>>, text |-> <<>>]
ArgDict(pairs) == [type |-> "dict", pairs |-> pairs, text |-> <<>>]
ArgStr(text) == [type |-> "str", pairs |-> <<>>, text |-> text]
ArgInt(digits) == [type |-> "int", pairs |-> <<>>, text |-> digits]
ArgList(items) == [type |-> "list", pairs |-> <<>>, text |-> items]
ArgNone == [type |-> "none", pairs |-> <<>>, text |-> <<>>]

\* repr of such a value, as the f-string of the error message prints it
ReprArguments(a) ==
    IF a.type = "dict"
    THEN <<"{">> \o Join([i \in 1..Len(a.pairs) |->
                             <<"'", a.pairs[i].key, "': '">> \o a.pairs[i].value \o <<"'">>],
                         <<", ">>) \o <<"}">>
    ELSE IF a.type = "str" THEN <<"'">> \o a.text \o <<"'">>
    ELSE IF a.type = "list" THEN <<"[">> \o a.text \o <<"]">>
    ELSE IF a.type = "none" THEN <<"None">>
    ELSE a.text

\* the contents the scripted model answers with
RawContents ==
    { RawNone,
      RawStr(S_TaskCompleted),
      RawList(<<TextPart(S_Task), TextPart(S_completed)>>) }

\* the tool-call lists of one payload, with at most n calls, ids counted from k
ToolCallLists(n, k) ==
    UNION { { [i \in 1..len |-> [id |-> CallIds[k + i], name |-> f[i],
                                 arguments |-> ArgAbsent]] :
              f \in [1..len -> CallNames] } : len \in 0..n }

\* the payloads a generation call returns
Payloads(n, k) ==
    { [kind |-> "ok", content |-> c, tool_calls |-> tcs] :
      c \in RawContents, tcs \in ToolCallLists(n, k) }

\* (mutant) a routing where a local name wins over the catalog
Route_LocalWins(name, remote_names) ==
    IF name \in LocalToolNames \/ name \notin remote_names THEN "local" ELSE "remote"

\* run_step's routing: a name of the remote catalog goes to the provider
Route(name, remote_names) ==
    IF name \in remote_names THEN "remote" ELSE "local"

\* content blocks: text, json (data is an object, given by its pairs), other
TextBlock(data) == [type |-> "text", data |-> data, json |-> <<>>]
JsonBlock(pairs) == [type |-> "json", data |-> <<>>, json |-> pairs]
OtherBlock(type, data) == [type |-> type, data |-> data, json |-> <<>>]

\* json.dumps(result_data, indent=2) of an object whose values are numbers
JsonDumpsIndent2(pairs) ==
    IF pairs = <<>> THEN <<"{", "}">>
    ELSE <<"{", "\n">>
         \o Join([i \in 1..Len(pairs) |->
                     <<" ", " ", "\"", pairs[i].key, "\"", ":", " ", pairs[i].value>>],
                 <<",", "\n">>)
         \o <<"\n", "}">>

\* (mutant) handlers that return an empty result for every name
HandlerOutcomes_UnknownReturns(route, name) ==
    { [kind |-> "blocks", blocks |-> <<>>, err |-> <<>>] }

\* what the handler of a tool call can do: return content blocks or raise
HandlerOutcomes(route, name) ==
    IF route = "remote"
    THEN { [kind |-> "blocks", blocks |-> <<TextBlock(S_ok)>>, err |-> <<>>],
           [kind |-> "raise", blocks |-> <<>>, err |-> <<"Failed to call tool">>] }
    ELSE IF name \in LocalToolNames
    THEN { [kind |-> "blocks", blocks |-> <<TextBlock(S_ok)>>, err |-> <<>>],
           [kind |-> "blocks", blocks |-> <<TextBlock(S_task_completed)>>, err |-> <<>>],
           [kind |-> "raise", blocks |-> <<>>, err |-> <<"'path'">>] }
    ELSE { [kind |-> "raise", blocks |-> <<>>, err |-> <<"Unknown local tool: ", name>>] }

\* run_step's rendering of one content block
RenderBlock(block) ==
    IF block.type = "text" THEN block.data
    ELSE IF block.type = "json" THEN JsonDumpsIndent2(block.json)
    ELSE <<"[", block.type, "]", ":", " ">> \o block.data

\* (mutant) a rendering that joins the blocks with one newline
RenderBlocks_OneNewline(blocks) ==
    Join([i \in 1..Len(blocks) |-> RenderBlock(blocks[i])], <<"\n">>)

\* run_step's rendering of a handler's content blocks to one string
RenderBlocks(blocks) ==
    Join([i \in 1..Len(blocks) |-> RenderBlock(blocks[i])], <<"\n", "\n">>)

\* the text of a tool call in an f-string
ReprToolCall(tool_call) ==
    <<"{'id': '", tool_call.id, "', 'function': {'name': '", tool_call.name, "'">>
    \o (IF tool_call.arguments.type = "absent" THEN <<>>
        ELSE <<", 'arguments': ">> \o ReprArguments(tool_call.arguments))
    \o <<"}}">>

\* (mutant) run_step without the try/except around a tool call
ToolCallMessage_NoCatch(tool_call, outcome) ==
    IF outcome.kind = "blocks"
    THEN [raises |-> FALSE,
          msg |-> tool_message(RenderBlocks(outcome.blocks), tool_call.id)]
    ELSE [raises |-> TRUE, msg |-> tool_message(<<>>, tool_call.id)]

\* run_step's try/except around one tool call: the message it appends, or
\* the exception it lets through
ToolCallMessage(tool_call, outcome) ==
    IF outcome.kind = "blocks"
    THEN [raises |-> FALSE,
          msg |-> tool_message(RenderBlocks(outcome.blocks), tool_call.id)]
    ELSE [raises |-> FALSE,
          msg |-> tool_message(<<"Error executing tool ">> \o ReprToolCall(tool_call)
                                   \o <<":", " ">> \o outcome.err,
                               tool_call.id)]

\* (mutant) a completion check that compares without lowering the content
CompletionCheck_CaseSensitive(messages) ==
    LET idx == {i \in 1..Len(messages) : messages[i].role = "assistant"}
    IN idx # {}
       /\ LET last_i == CHOOSE i \in idx : \A j \in idx : j <= i
          IN \E phrase \in completion_phrases : Contains(messages[last_i].content, phrase)

\* run_task's completion check: the most recent message of role assistant
\* holds one of the completion phrases, whatever the case of its letters
CompletionCheck(messages) ==
    LET idx == {i \in 1..Len(messages) : messages[i].role = "assistant"}
    IN idx # {}
       /\ LET last_i == CHOOSE i \in idx : \A j \in idx : j <= i
              content == Lower(messages[last_i].content)
          IN \E phrase \in completion_phrases : Contains(content, phrase)

\* (mutant) a loop that takes the tool calls from the last to the first
CallAt_Reversed(calls, i) == calls[Len(calls) + 1 - i]

\* run_step's  for tool_call in tool_calls : the call of iteration i
CallAt(calls, i) == calls[i]

\* (mutant) a loop that runs one iteration too many
LoopContinues_OffByOne(i, n) == i <= n

\* run_task's loop  for step in range(config.max_steps)
LoopContinues(i, n) == i < n

\* (mutant) a try block that starts at the loop
InTry_LoopOnly(label) == label \in {"loop", "get_tools", "generate", "dispatch", "step_end"}

\* the statements of run_task that its try block covers
InTry(label) == TRUE

\* ------------------------------------------------------------------ local tools: paths
\* a path string is a token sequence with "/" tokens; a path is the sequence
\* of its components, each a token sequence
RECURSIVE ResolveDots(_, _)
\* Path.resolve() without symbolic links:  ..  steps back, not above "/"
ResolveDots(done, rest) ==
    IF rest = <<>> THEN done
    ELSE IF Head(rest) = <<"..">>
    THEN ResolveDots(IF done = <<>> THEN <<>> ELSE SubSeq(done, 1, Len(done) - 1), Tail(rest))
    ELSE ResolveDots(Append(done, Head(rest)), Tail(rest))

\* the components of a path string; empty and "." components are dropped
PathParts(str) ==
    SelectSeq(Split(str, "/"), LAMBDA c : c # <<>> /\ c # <<".">>)

\* root / relative: an absolute right operand replaces the left one
JoinPath(root, relative) ==
    IF relative # <<>> /\ relative[1] = "/"
    THEN PathParts(relative)
    ELSE root \o PathParts(relative)

\* str(path)
PathStr(path) ==
    IF path = <<>> THEN <<"/">>
    ELSE Join([i \in 1..Len(path) |-> <<"/">> \o path[i]], <<>>)

\* self.repo_root, resolved: the directory /r
repo_root == << <<"r">> >>

\* _resolve_path's test that the resolved path is under the root
InsideRoot(path_str, root_str) == StartsWith(path_str, root_str)

\* LocalToolExecutor._resolve_path
ResolvePath(relative) ==
    LET path == ResolveDots(<<>>, JoinPath(repo_root, relative))
    IN [raises |-> ~InsideRoot(PathStr(path), PathStr(repo_root)), path |-> path]

\* ------------------------------------------------------------------ local tools: filesystem
\* fs = [dirs: the directories, files: the files as [path, content, text]]
S_secret == <<"s", "e", "c", "r", "e", "t">>
S_new == <<"n", "e", "w">>
S_patched == <<"p", "a", "t", "c", "h", "e", "d">>

\* /r holds a file that is not UTF-8 text; next to /r lies /r2 with a file
InitialFs ==
    [dirs |-> { <<>>, << <<"r">> >>, << <<"r", "2">> >> },
     files |-> { [path |-> << <<"r">>, <<"a">> >>, content |-> <<"\\xff">>, text |-> FALSE],
                 [path |-> << <<"r", "2">>, <<"a">> >>, content |-> S_secret, text |-> TRUE] }]

IsDir(f, path) == path \in f.dirs
IsFile(f, path) == \E e \in f.files : e.path = path
Exists(f, path) == IsDir(f, path) \/ IsFile(f, path)
FileAt(f, path) == CHOOSE e \in f.files : e.path = path
Prefixes(path) == {SubSeq(path, 1, n) : n \in 0..Len(path)}

\* Path.mkdir(parents=True, exist_ok=True)
Mkdirs(f, path) ==
    IF \E q \in Prefixes(path) : IsFile(f, q)
    THEN [raises |-> TRUE, fs |-> f]
    ELSE [raises |-> FALSE, fs |-> [f EXCEPT !.dirs = @ \cup Prefixes(path)]]

\* Path.write_text(content) of a string
WriteText(f, path, content) ==
    IF IsDir(f, path) \/ ~IsDir(f, SubSeq(path, 1, Len(path) - 1))
    THEN [raises |-> TRUE, fs |-> f]
    ELSE [raises |-> FALSE,
          fs |-> [f EXCEPT !.files =
                    {e \in @ : e.path # path}
                    \cup {[path |-> path, content |-> content, text |-> TRUE]}]]

\* ------------------------------------------------------------------ local tools: capabilities
\* the outcome of a call: it raised exc, or returned content blocks; the
\* filesystem after it and the paths it looked at or changed
Returned(f, data, touched) ==
    [done |-> TRUE, raises |-> FALSE, exc |-> "none", blocks |-> <<TextBlock(data)>>,
     fs |-> f, touched |-> touched]
Raised(f, exc, touched) ==
    [done |-> TRUE, raises |-> TRUE, exc |-> exc, blocks |-> <<>>, fs |-> f,
     touched |-> touched]

\* the call is still awaiting subprocess.run, which has no timeout argument
\* and returns only when the process exits
Awaiting(f) ==
    [done |-> FALSE, raises |-> FALSE, exc |-> "none", blocks |-> <<>>, fs |-> f,
     touched |-> {}]

\* the arguments object of a tool call
NoArgs ==
    [has_path |-> FALSE, path |-> <<>>, has_content |-> FALSE, content |-> <<>>,
     overwrite |-> "absent", has_diff |-> FALSE, target |-> "absent"]

\* LocalToolExecutor._list_files
ListFiles(f, args) ==
    LET dir_path_str == IF args.has_path THEN args.path ELSE <<".">>
        r == ResolvePath(dir_path_str)
    IN IF r.raises THEN Raised(f, "PathEscape", {})
       ELSE IF ~Exists(f, r.path)
       THEN Returned(f, <<"[list_files] Directory not found: ">> \o dir_path_str, {r.path})
       ELSE IF ~IsDir(f, r.path)
       THEN Returned(f, <<"[list_files] Path is not a directory: ">> \o dir_path_str, {r.path})
       ELSE Returned(f, <<"[list_files] Contents of ">> \o dir_path_str, {r.path})

\* LocalToolExecutor._read_file
ReadFile(f, args) ==
    IF ~args.has_path THEN Raised(f, "KeyError", {})
    ELSE LET r == ResolvePath(args.path)
         IN IF r.raises THEN Raised(f, "PathEscape", {})
            ELSE IF IsDir(f, r.path) THEN Raised(f, "IsADirectoryError", {r.path})
            ELSE IF ~IsFile(f, r.path)
            THEN Returned(f, <<"[read_file] File not found: ">> \o args.path, {r.path})
            ELSE IF ~FileAt(f, r.path).text THEN Raised(f, "UnicodeDecodeError", {r.path})
            ELSE Returned(f, FileAt(f, r.path).content, {r.path})

\* (mutant) an overwrite flag that is always on
Overwrite_Always(args) == TRUE

\* _write_file's overwrite = bool(args.get("overwrite", True))
Overwrite(args) == args.overwrite # "false"

\* LocalToolExecutor._write_file
WriteFile(f, args) ==
    IF ~args.has_path \/ ~args.has_content THEN Raised(f, "KeyError", {})
    ELSE LET overwrite == Overwrite(args)
             r == ResolvePath(args.path)
             parent == SubSeq(r.path, 1, Len(r.path) - 1)
         IN IF r.raises THEN Raised(f, "PathEscape", {})
            ELSE IF Exists(f, r.path) /\ ~overwrite
            THEN Returned(f, <<"[write_file] File already exists and overwrite=False: ">>
                             \o args.path, {r.path})
            ELSE LET m == Mkdirs(f, parent)
                     w == WriteText(m.fs, r.path, args.content)
                 IN IF m.raises
                    THEN Returned(f, <<"[write_file] Error writing file ">> \o args.path,
                                  {r.path})
                    ELSE IF w.raises
                    THEN Returned(m.fs, <<"[write_file] Error writing file ">> \o args.path,
                                  Prefixes(r.path))
                    ELSE Returned(w.fs, <<"[write_file] Wrote characters to ">> \o args.path,
                                  Prefixes(r.path))

\* LocalToolExecutor._apply_unified_diff; whether the patch applies to the
\* file's text is the patch's matter (applies)
ApplyUnifiedDiff(f, args, applies) ==
    IF ~args.has_path THEN Raised(f, "KeyError", {})
    ELSE LET r == ResolvePath(args.path)
         IN IF r.raises THEN Raised(f, "PathEscape", {})
            ELSE IF ~args.has_diff THEN Raised(f, "KeyError", {})
            ELSE IF applies /\ IsFile(f, r.path) /\ FileAt(f, r.path).text
            THEN Returned(WriteText(f, r.path, S_patched).fs,
                          <<"[apply_unified_diff] Patch applied successfully to ">> \o args.path,
                          {r.path})
            ELSE Returned(f, <<"[apply_unified_diff] Failed to apply patch to ">> \o args.path,
                          {r.path})

\* what the external process of run_tests and run_linter does: it exits, it
\* cannot be started, starting it fails otherwise, or it never exits
ProcessOutcomes == {"completed", "not_found", "error", "never_exits"}

\* subprocess.run(cmd, cwd=..., capture_output=True, text=True) in a thread
SubprocessRun(process) == process

\* LocalToolExecutor._run_tests
RunTests(f, args, process) ==
    LET run == SubprocessRun(process)
    IN IF run = "never_exits" THEN Awaiting(f)
       ELSE IF run = "completed" THEN Returned(f, <<"[run_tests] Result:\n">>, {})
       ELSE IF run = "not_found" THEN Returned(f, <<"[run_tests] pytest not found.">>, {})
       ELSE Returned(f, <<"[run_tests] Error running tests: ">>, {})

\* LocalToolExecutor._run_linter; target: absent, a string, or not a string
RunLinter(f, args, process) ==
    LET run == SubprocessRun(process)
    IN IF args.target = "not_a_string" THEN Raised(f, "AttributeError", {})
       ELSE IF run = "never_exits" THEN Awaiting(f)
       ELSE IF run = "completed" THEN Returned(f, <<"[run_linter] Result:\n">>, {})
       ELSE IF run = "not_found" THEN Returned(f, <<"[run_linter] pylint not found.">>, {})
       ELSE Returned(f, <<"[run_linter] Error running linter: ">>, {})

\* LocalToolExecutor.call_tool
CallTool(f, name, args, applies, process) ==
    IF name = "list_files" THEN ListFiles(f, args)
    ELSE IF name = "read_file" THEN ReadFile(f, args)
    ELSE IF name = "apply_unified_diff" THEN ApplyUnifiedDiff(f, args, applies)
    ELSE IF name = "write_file" THEN WriteFile(f, args)
    ELSE IF name = "run_tests" THEN RunTests(f, args, process)
    ELSE IF name = "run_linter" THEN RunLinter(f, args, process)
    ELSE Raised(f, "UnknownTool", {})

\* ------------------------------------------------------------------ state
VARIABLES
    \* run_task (backend/dev_agent.py)
    pc,               \* position in run_task
    max_steps,        \* config.max_steps
    base_url,         \* config.git_mcp_url, as a sequence of tokens
    prior,            \* existing_conversation: [given, messages]
    conversation,     \* the messages of the local  conversation
    convBound,        \* "conversation" in locals()
    stepsBound,       \* "steps" in locals()
    steps,            \* the local  steps
    available_tools,  \* agent._available_tools: [cached, names]
    mcp_tool_names,   \* agent._mcp_tool_names
    tool_calls,       \* the tool calls of the current step
    tc_index,         \* the next tool call to dispatch
    result,           \* the DevAgentResult returned
    escaped,          \* an exception left run_task
    \* history of the run, read by the properties only
    failure,          \* what raised, "none" while nothing did
    failStep,         \* the step during which it raised
    snap,             \* the counters and transcript when it raised
    genCalls,         \* generation calls issued
    listCalls,        \* list_tools calls issued
    script,           \* the payloads the generation calls returned
    dispatchLog,      \* the tool calls handed to a handler, with the outcome
    stepStartLen,     \* length of the conversation when the step's payload arrived
    \* LocalToolExecutor (backend/local_tools.py)
    fs,               \* the filesystem: the nodes that exist, by absolute path
    last,             \* the last call_tool call and what it did
    ops,              \* number of call_tool calls made
    \* ModelClient (common/llm_client.py)
    gpc,              \* position of each caller of generate
    semaphore,        \* value of self._semaphore
    last_request_time,\* self._last_request_time: [set, t]
    now,              \* time.time(), in ticks
    wake,             \* when each sleeping caller's asyncio.sleep ends
    requests,         \* the requests sent to the backend: [caller, at]
    \* Conversation (common/conversation.py)
    c_heap,           \* the message dicts made by append, by identity (index)
    c_messages,       \* self._messages: the identities of the stored dicts, in order
    c_observers,      \* self._observers
    c_view,           \* the list a caller got from  messages : [held, items]
    c_text,           \* the text a caller got from  to_json : [set, text]
    c_file,           \* the file written by  save : [set, text]
    c_loaded,         \* the conversation made by  from_json / load / Conversation(messages)
    c_last,           \* the last operation on the conversation
    c_ops,            \* number of operations made
    \* history of the conversation, read by the properties only
    c_notes,          \* the calls of observer.update, in order
    c_hist,           \* the messages as append stored them
    \* DevAgent.run_step, one call (backend/dev_agent.py)
    s_pc,             \* position in run_step
    s_provider_tools, \* the tools the provider reports, in its order
    s_allowed_tools,  \* mcp_tool_client.allowed_tools
    s_mcp_tools,      \* what mcp_tool_client.list_tools() returned: [called, names]
    s_names,          \* agent._mcp_tool_names
    s_tool_calls,     \* the tool calls of the payload
    s_index,          \* the next tool call to dispatch
    s_conversation,   \* the messages of the conversation
    s_log,            \* the handler calls made, in order, with what they did
    \* MCPToolClient (common/mcp_client.py)
    m_base_url,           \* self.base_url, as a sequence of tokens
    m_allowed_tools,      \* self.allowed_tools
    m_default_repo_path,  \* self.default_repo_path: [set, path]
    m_provider_tools,     \* the tools the provider reports, in its order
    m_last,               \* the last call of list_tools or call_tool and what it did
    m_ops,                \* the number of calls made
    \* check_compile (backend/eval/run_eval.py)
    e_repo,           \* the files under repo_root
    e_last,           \* the last call of check_compile and what it returned
    e_ops,            \* the number of calls made
    \* the transport sessions of one run (common/mcp_client.py, backend/dev_agent.py)
    t_pc,             \* where the run is
    t_max_steps,      \* config.max_steps
    t_steps,          \* steps
    t_cached,         \* self._available_tools is not None
    t_calls,          \* the tool calls of the step still to dispatch: their routes
    t_op,             \* the remote operation in progress and the stage of its session
    t_open,           \* the sessions that are open (child process running)
    t_next,           \* the number of child processes spawned so far
    t_log             \* the remote operations that have returned or raised

runVars ==
    <<pc, max_steps, base_url, prior, conversation, convBound, stepsBound, steps,
      available_tools, mcp_tool_names, tool_calls, tc_index, result, escaped,
      failure, failStep, snap, genCalls, listCalls, script, dispatchLog, stepStartLen>>

localVars == <<fs, last, ops>>

genVars == <<gpc, semaphore, last_request_time, now, wake, requests>>

convVars ==
    <<c_heap, c_messages, c_observers, c_view, c_text, c_file, c_loaded, c_last, c_ops,
      c_notes, c_hist>>

stepVars ==
    <<s_pc, s_provider_tools, s_allowed_tools, s_mcp_tools, s_names, s_tool_calls, s_index,
      s_conversation, s_log>>

mcpVars ==
    <<m_base_url, m_allowed_tools, m_default_repo_path, m_provider_tools, m_last, m_ops>>

evalVars == <<e_repo, e_last, e_ops>>

sessVars == <<t_pc, t_max_steps, t_steps, t_cached, t_calls, t_op, t_open, t_next, t_log>>

vars == <<runVars, localVars, genVars, convVars, stepVars, mcpVars, evalVars, sessVars>>

\* ------------------------------------------------------------------ run_task
NoError == [kind |-> "none", n |-> 0, what |-> "none"]
NoResult ==
    [returned |-> FALSE, success |-> FALSE, steps |-> 0, conversation |-> <<>>,
     error |-> NoError]

\* (mutant) a result that never carries an error
DevAgentResult_NoError(success, n, messages, error) ==
    [returned |-> TRUE, success |-> success, steps |-> n, conversation |-> messages,
     error |-> NoError]

\* DevAgentResult(success, steps, conversation, error)
DevAgentResult(success, n, messages, error) ==
    [returned |-> TRUE, success |-> success, steps |-> n, conversation |-> messages,
     error |-> error]

StoredMessage(role, text) ==
    [role |-> role, content |-> text, tool_call_id |-> Absent, name |-> Absent]

NoPrior == [given |-> FALSE, messages |-> <<>>]

\* the prior transcripts tried as existing_conversation
PriorConversations ==
    { NoPrior,
      [given |-> TRUE,
       messages |-> <<StoredMessage("user", <<"earlier task">>),
                      StoredMessage("assistant", S_TaskCompleted)>>] }

task_description == <<"fix the failing test">>

\* the system prompt of create_initial_conversation; it quotes the phrase
system_content ==
    <<"You are an autonomous local development assistant. ... end with the exact phrase: ">>
    \o S_TaskCompleted \o <<". Always verify your work ...">>

\* create_initial_conversation: the system message, then the task
create_initial_conversation ==
    ConversationAppend(
        ConversationAppend(<<>>, system_message(system_content)).messages,
        user_message(task_description)).messages

NoSnap == [conv |-> <<>>, genCalls |-> 0, listCalls |-> 0, dispatched |-> 0]

StepLabels == {"get_tools", "generate", "dispatch", "step_end"}

\* an exception of kind k is raised at the current statement, after the
\* statement's own effects (the primed history variables)
Raise(k) ==
    /\ failure' = k
    /\ failStep' = IF pc \in StepLabels THEN steps + 1 ELSE 0
    /\ snap' = [conv |-> conversation', genCalls |-> genCalls',
                listCalls |-> listCalls', dispatched |-> Len(dispatchLog')]
    /\ IF InTry(pc)
       THEN pc' = "except" /\ escaped' = escaped
       ELSE pc' = "done" /\ escaped' = TRUE
    /\ result' = result

NoRaise == UNCHANGED <<failure, failStep, snap, escaped>>

\* (mutant) a handler that counts the step that failed
HandlerSteps_Attempted(bound, n) == IF bound THEN n + 1 ELSE 0

\* the value of  steps  the except handler reports
HandlerSteps(bound, n) == IF bound THEN n ELSE 0

\* (mutant) a handler that always reports a fresh Conversation()
HandlerConversation_Fresh(bound, messages) == <<>>

\* the transcript the except handler reports
HandlerConversation(bound, messages) == IF bound THEN messages ELSE <<>>

RunInit ==
    /\ pc = "config"
    /\ max_steps \in 0..MaxSteps
    /\ base_url \in BaseUrls
    /\ prior \in PriorConversations
    /\ conversation = <<>>
    /\ convBound = FALSE
    /\ stepsBound = FALSE
    /\ steps = 0
    /\ available_tools = [cached |-> FALSE, names |-> <<>>]
    /\ mcp_tool_names = {}
    /\ tool_calls = <<>>
    /\ tc_index = 1
    /\ result = NoResult
    /\ escaped = FALSE
    /\ failure = "none"
    /\ failStep = 0
    /\ snap = NoSnap
    /\ genCalls = 0
    /\ listCalls = 0
    /\ script = <<>>
    /\ dispatchLog = <<>>
    /\ stepStartLen = 0

\* get_model_config(...): returns, or raises for an unknown backend, a
\* missing key or a malformed LLM_REQUESTS_PER_MINUTE
GetModelConfig ==
    /\ pc = "config"
    /\ UNCHANGED <<max_steps, base_url, prior, conversation, convBound, stepsBound, steps,
                   available_tools, mcp_tool_names, tool_calls, tc_index,
                   genCalls, listCalls, script, dispatchLog, stepStartLen>>
    /\ \/ pc' = "clients" /\ NoRaise /\ result' = result
       \/ Raise("config")
    /\ UNCHANGED <<localVars, genVars, convVars, stepVars, mcpVars, evalVars, sessVars>>

\* ModelClient(...), MCPToolClient(...), DevAgent(...): return, or raise
\* (requests_per_minute = 0, an unresolvable repo_root)
CreateClients ==
    /\ pc = "clients"
    /\ UNCHANGED <<max_steps, base_url, prior, conversation, convBound, stepsBound, steps,
                   available_tools, mcp_tool_names, tool_calls, tc_index,
                   genCalls, listCalls, script, dispatchLog, stepStartLen>>
    /\ \/ pc' = "loop_init" /\ NoRaise /\ result' = result
       \/ Raise("client")
    /\ UNCHANGED <<localVars, genVars, convVars, stepVars, mcpVars, evalVars, sessVars>>

\* the conversation is created or continued, then  steps = 0
CreateConversation ==
    /\ pc = "loop_init"
    /\ UNCHANGED <<max_steps, base_url, prior, steps, available_tools, mcp_tool_names,
                   tool_calls, tc_index, genCalls, listCalls, script, dispatchLog,
                   stepStartLen>>
    /\ IF prior.given
       THEN /\ convBound' = TRUE
            /\ \/ /\ conversation' =
                       ConversationAppend(prior.messages, user_message(task_description)).messages
                  /\ stepsBound' = TRUE
                  /\ pc' = "loop"
                  /\ NoRaise /\ result' = result
               \/ \* existing_conversation is no Conversation: its append raises
                  /\ conversation' = prior.messages
                  /\ stepsBound' = FALSE
                  /\ Raise("conversation")
       ELSE /\ conversation' = create_initial_conversation
            /\ convBound' = TRUE
            /\ stepsBound' = TRUE
            /\ pc' = "loop"
            /\ NoRaise /\ result' = result
    /\ UNCHANGED <<localVars, genVars, convVars, stepVars, mcpVars, evalVars, sessVars>>

\* the head of the loop: another step, or the budget is exhausted
LoopHead ==
    /\ pc = "loop"
    /\ UNCHANGED <<max_steps, base_url, prior, conversation, convBound, stepsBound, steps,
                   available_tools, mcp_tool_names, tool_calls, tc_index,
                   genCalls, listCalls, script, dispatchLog, stepStartLen>>
    /\ NoRaise
    /\ IF LoopContinues(steps, max_steps)
       THEN pc' = "get_tools" /\ result' = result
       ELSE /\ pc' = "done"
            /\ result' = DevAgentResult(FALSE, steps, conversation,
                                        [kind |-> "budget", n |-> max_steps, what |-> "none"])
    /\ UNCHANGED <<localVars, genVars, convVars, stepVars, mcpVars, evalVars, sessVars>>

\* the local tool specifications, in the order of the list
LOCAL_TOOL_SPECS ==
    <<"list_files", "read_file", "apply_unified_diff", "write_file", "run_tests", "run_linter">>

\* (mutant) an agent that never finds its catalog cached
CatalogCached_Never(tools) == FALSE

\* _get_available_tools:  self._available_tools is not None
CatalogCached(tools) == tools.cached

\* DevAgent._get_available_tools: the cached catalog, or one list_tools call
GetAvailableTools ==
    /\ pc = "get_tools"
    /\ UNCHANGED <<max_steps, base_url, prior, conversation, convBound, stepsBound, steps,
                   tool_calls, tc_index, genCalls, script, dispatchLog, stepStartLen>>
    /\ IF CatalogCached(available_tools)
       THEN /\ pc' = "generate"
            /\ UNCHANGED <<available_tools, mcp_tool_names, listCalls, result>>
            /\ NoRaise
       ELSE /\ listCalls' = listCalls + 1
            /\ \/ \* the session is established and the provider lists its tools
                  /\ ~GetTransportContext(base_url).raises
                  /\ LET mcp_tools == ListToolsFilter(ProviderTools, AllowAll)
                     IN /\ mcp_tool_names' = {mcp_tools[i] : i \in 1..Len(mcp_tools)}
                        /\ available_tools' =
                              [cached |-> TRUE, names |-> mcp_tools \o LOCAL_TOOL_SPECS]
                  /\ pc' = "generate"
                  /\ NoRaise /\ result' = result
               \/ \* the address is refused, or the child process or the handshake fails
                  /\ UNCHANGED <<available_tools, mcp_tool_names>>
                  /\ Raise("catalog")
    /\ UNCHANGED <<localVars, genVars, convVars, stepVars, mcpVars, evalVars, sessVars>>

\* model_client.generate and the rest of run_step up to the append of the
\* assistant message
Generate ==
    /\ pc = "generate"
    /\ UNCHANGED <<max_steps, base_url, prior, convBound, stepsBound, steps,
                   available_tools, mcp_tool_names, listCalls, dispatchLog>>
    /\ genCalls' = genCalls + 1
    /\ \/ \* the call raises
          /\ UNCHANGED <<conversation, script, stepStartLen, tool_calls, tc_index>>
          /\ Raise("generation")
       \/ \* the response has no choices: run_step raises ValueError
          /\ UNCHANGED <<conversation, script, stepStartLen, tool_calls, tc_index>>
          /\ Raise("no_choices")
       \/ \E resp \in Payloads(MaxCalls - Len(dispatchLog), Len(dispatchLog)) :
             /\ conversation' =
                  ConversationAppend(conversation,
                      [Dict("assistant", NormalizeAssistantContent(resp.content))
                          EXCEPT !.tool_calls = resp.tool_calls]).messages
             /\ script' = Append(script, [payload |-> resp, at |-> Len(conversation) + 1,
                                          tools |-> available_tools.names])
             /\ stepStartLen' = Len(conversation)
             /\ tool_calls' = resp.tool_calls
             /\ tc_index' = 1
             /\ pc' = IF resp.tool_calls # <<>> THEN "dispatch" ELSE "step_end"
             /\ NoRaise /\ result' = result
    /\ UNCHANGED <<localVars, genVars, convVars, stepVars, mcpVars, evalVars, sessVars>>

\* one iteration of run_step's loop over the tool calls
DispatchToolCall ==
    /\ pc = "dispatch"
    /\ UNCHANGED <<max_steps, base_url, prior, convBound, stepsBound, steps,
                   available_tools, mcp_tool_names, tool_calls, genCalls, listCalls,
                   script, stepStartLen>>
    /\ LET tool_call == CallAt(tool_calls, tc_index)
           route == Route(tool_call.name, mcp_tool_names)
       IN \E outcome \in HandlerOutcomes(route, tool_call.name) :
             LET r == ToolCallMessage(tool_call, outcome)
             IN /\ dispatchLog' = Append(dispatchLog,
                                    [step |-> steps + 1, index |-> tc_index, call |-> tool_call,
                                     route |-> route, outcome |-> outcome,
                                     started |-> Len(conversation),
                                     at |-> IF r.raises THEN 0 ELSE Len(conversation) + 1])
                /\ IF r.raises
                   THEN /\ UNCHANGED <<conversation, tc_index>>
                        /\ Raise("tool")
                   ELSE /\ conversation' = ConversationAppend(conversation, r.msg).messages
                        /\ tc_index' = tc_index + 1
                        /\ pc' = IF tc_index = Len(tool_calls) THEN "step_end" ELSE "dispatch"
                        /\ NoRaise /\ result' = result
    /\ UNCHANGED <<localVars, genVars, convVars, stepVars, mcpVars, evalVars, sessVars>>

\* run_step has returned:  steps += 1  and the completion check
StepEnd ==
    /\ pc = "step_end"
    /\ UNCHANGED <<max_steps, base_url, prior, conversation, convBound, stepsBound,
                   available_tools, mcp_tool_names, tool_calls, tc_index,
                   genCalls, listCalls, script, dispatchLog, stepStartLen>>
    /\ NoRaise
    /\ steps' = steps + 1
    /\ IF CompletionCheck(conversation)
       THEN /\ pc' = "done"
            /\ result' = DevAgentResult(TRUE, steps + 1, conversation, NoError)
       ELSE pc' = "loop" /\ result' = result
    /\ UNCHANGED <<localVars, genVars, convVars, stepVars, mcpVars, evalVars, sessVars>>

\* run_task's  except Exception  handler
ExceptHandler ==
    /\ pc = "except"
    /\ UNCHANGED <<max_steps, base_url, prior, conversation, convBound, stepsBound, steps,
                   available_tools, mcp_tool_names, tool_calls, tc_index,
                   genCalls, listCalls, script, dispatchLog, stepStartLen>>
    /\ NoRaise
    /\ pc' = "done"
    /\ result' = DevAgentResult(FALSE, HandlerSteps(stepsBound, steps),
                                HandlerConversation(convBound, conversation),
                                [kind |-> "exception", n |-> 0, what |-> failure])
    /\ UNCHANGED <<localVars, genVars, convVars, stepVars, mcpVars, evalVars, sessVars>>

RunNext ==
    \/ GetModelConfig
    \/ CreateClients
    \/ CreateConversation
    \/ LoopHead
    \/ GetAvailableTools
    \/ Generate
    \/ DispatchToolCall
    \/ StepEnd
    \/ ExceptHandler

\* ------------------------------------------------------------------ LocalToolExecutor
NoCall ==
    [called |-> FALSE, name |-> "none", args |-> NoArgs, process |-> "completed",
     done |-> TRUE, raises |-> FALSE, exc |-> "none", blocks |-> <<>>, touched |-> {},
     before |-> InitialFs]

\* the path arguments tried: up to MaxPathLen components joined by "/"
PathComponents == { <<"..">>, <<"a">>, <<"r", "2">> }
PathArgs ==
    UNION { { Join([i \in 1..n |-> f[i]], <<"/">>) : f \in [1..n -> PathComponents] } :
            n \in 1..MaxPathLen }

\* an arguments object with a path, and the one without
WithPath == {[NoArgs EXCEPT !.has_path = TRUE, !.path = p] : p \in PathArgs}
PathOrNone == WithPath \cup {NoArgs}

LocalInit == fs = InitialFs /\ last = NoCall /\ ops = 0

\* call_tool(name, args) is called and runs as far as it gets: to its return,
\* to its exception, or to an await that never resumes; the caller awaits the
\* call, so that no call follows one that is not done
Call(name, args, applies, process) ==
    /\ ops < MaxOps
    /\ last.done
    /\ LET o == CallTool(fs, name, args, applies, process)
       IN /\ fs' = o.fs
          /\ last' = [called |-> TRUE, name |-> name, args |-> args, process |-> process,
                      done |-> o.done, raises |-> o.raises,
                      exc |-> o.exc, blocks |-> o.blocks, touched |-> o.touched,
                      before |-> fs]
    /\ ops' = ops + 1
    /\ UNCHANGED <<runVars, genVars, convVars, stepVars, mcpVars, evalVars, sessVars>>

CallListFiles == \E args \in PathOrNone : Call("list_files", args, FALSE, "completed")

CallReadFile == \E args \in PathOrNone : Call("read_file", args, FALSE, "completed")

CallWriteFile ==
    \E a \in PathOrNone, c \in BOOLEAN, o \in {"absent", "true", "false"} :
        Call("write_file",
             [a EXCEPT !.has_content = c, !.content = IF c THEN S_new ELSE <<>>,
                       !.overwrite = o],
             FALSE, "completed")

CallApplyUnifiedDiff ==
    \E a \in PathOrNone, d \in BOOLEAN, applies \in BOOLEAN :
        Call("apply_unified_diff", [a EXCEPT !.has_diff = d], applies, "completed")

CallRunTests == \E process \in ProcessOutcomes : Call("run_tests", NoArgs, FALSE, process)

CallRunLinter ==
    \E t \in {"absent", "string", "not_a_string"}, process \in ProcessOutcomes :
        Call("run_linter", [NoArgs EXCEPT !.target = t], FALSE, process)

CallUnknownTool == Call("bogus", NoArgs, FALSE, "completed")

LocalNext ==
    \/ CallListFiles
    \/ CallReadFile
    \/ CallWriteFile
    \/ CallApplyUnifiedDiff
    \/ CallRunTests
    \/ CallRunLinter
    \/ CallUnknownTool

\* ------------------------------------------------------------------ ModelClient
Callers == 1..NumCallers

\* self._min_interval, 60.0 / requests_per_minute, in ticks of the clock
min_interval == 2

\* (mutant) a gate that lets every caller in
CanAcquire_NoGate(value) == TRUE

\* asyncio.Semaphore.acquire returns at once when the value is positive
CanAcquire(value) == value > 0

\* the callers past  async with self._semaphore  and not yet out of it
Holders == {c \in Callers : gpc[c] \in {"holding", "sleeping", "inflight"}}

GenInit ==
    /\ gpc = [c \in Callers |-> "idle"]
    /\ semaphore = 1
    /\ last_request_time = [set |-> FALSE, t |-> 0]
    /\ now = 0
    /\ wake = [c \in Callers |-> 0]
    /\ requests = <<>>

\* a task calls generate and reaches  async with self._semaphore
CallGenerate(c) ==
    /\ gpc[c] = "idle"
    /\ Len(requests) + Cardinality({d \in Callers : gpc[d] # "idle"}) < MaxRequests
    /\ gpc' = [gpc EXCEPT ![c] = "waiting"]
    /\ UNCHANGED <<semaphore, last_request_time, now, wake, requests>>
    /\ UNCHANGED <<runVars, localVars, convVars, stepVars, mcpVars, evalVars, sessVars>>

\* the caller enters the semaphore
Acquire(c) ==
    /\ gpc[c] = "waiting"
    /\ CanAcquire(semaphore)
    /\ semaphore' = semaphore - 1
    /\ gpc' = [gpc EXCEPT ![c] = "holding"]
    /\ UNCHANGED <<last_request_time, now, wake, requests>>
    /\ UNCHANGED <<runVars, localVars, convVars, stepVars, mcpVars, evalVars, sessVars>>

\* the request goes to the backend:  await self._client.chat.completions.create
SendRequest(c) ==
    /\ gpc' = [gpc EXCEPT ![c] = "inflight"]
    /\ requests' = Append(requests, [caller |-> c, at |-> now])

\* the rate limit: sleep for the rest of the interval, or send at once
RateLimit(c) ==
    /\ gpc[c] = "holding"
    /\ IF last_request_time.set /\ now - last_request_time.t < min_interval
       THEN /\ gpc' = [gpc EXCEPT ![c] = "sleeping"]
            /\ wake' = [wake EXCEPT ![c] = now + (min_interval - (now - last_request_time.t))]
            /\ UNCHANGED requests
       ELSE SendRequest(c) /\ UNCHANGED wake
    /\ UNCHANGED <<semaphore, last_request_time, now>>
    /\ UNCHANGED <<runVars, localVars, convVars, stepVars, mcpVars, evalVars, sessVars>>

\* asyncio.sleep is over
WakeUp(c) ==
    /\ gpc[c] = "sleeping"
    /\ now >= wake[c]
    /\ SendRequest(c)
    /\ UNCHANGED <<semaphore, last_request_time, now, wake>>
    /\ UNCHANGED <<runVars, localVars, convVars, stepVars, mcpVars, evalVars, sessVars>>

\* the backend answers: the time is noted and the semaphore left
RequestReturns(c) ==
    /\ gpc[c] = "inflight"
    /\ last_request_time' = [set |-> TRUE, t |-> now]
    /\ semaphore' = semaphore + 1
    /\ gpc' = [gpc EXCEPT ![c] = "idle"]
    /\ UNCHANGED <<now, wake, requests>>
    /\ UNCHANGED <<runVars, localVars, convVars, stepVars, mcpVars, evalVars, sessVars>>

\* the request raises: the semaphore is left, the time is not noted
RequestRaises(c) ==
    /\ gpc[c] = "inflight"
    /\ semaphore' = semaphore + 1
    /\ gpc' = [gpc EXCEPT ![c] = "idle"]
    /\ UNCHANGED <<last_request_time, now, wake, requests>>
    /\ UNCHANGED <<runVars, localVars, convVars, stepVars, mcpVars, evalVars, sessVars>>

\* time passes
Tick ==
    /\ now < MaxTime
    /\ now' = now + 1
    /\ UNCHANGED <<gpc, semaphore, last_request_time, wake, requests>>
    /\ UNCHANGED <<runVars, localVars, convVars, stepVars, mcpVars, evalVars, sessVars>>

GenNext ==
    \/ \E c \in Callers : CallGenerate(c)
    \/ \E c \in Callers : Acquire(c)
    \/ \E c \in Callers : RateLimit(c)
    \/ \E c \in Callers : WakeUp(c)
    \/ \E c \in Callers : RequestReturns(c)
    \/ \E c \in Callers : RequestRaises(c)
    \/ Tick

\* ------------------------------------------------------------------ Conversation
\* the characters of the contents tried: a letter, a quote, a backslash, a newline
S_a == <<"a">>
S_quoted == <<"\"", "a", "\\", "\n">>
S_b == <<"b">>
S_edited == <<"e", "d", "i", "t", "e", "d">>

\* the message dictionaries tried with append: accepted ones ...
D_user == Dict("user", S_quoted)
D_tool ==
    [Dict("tool", <<>>) EXCEPT !.content = RawList(<<TextPart(S_a), ImagePart, TextPart(S_b)>>),
                               !.tool_call_id = "call_1", !.name = "read_file"]
D_none == [Dict("assistant", <<>>) EXCEPT !.content = RawNone]
\* ... and refused ones: a role that is not valid, no role, no content
D_bad_role == Dict("function", S_a)
D_no_role == Dict(Absent, S_a)
D_no_content == [Dict("user", <<>>) EXCEPT !.has_content = FALSE]

AcceptedDicts == {D_user, D_tool, D_none}
RefusedDicts == {D_bad_role, D_no_role, D_no_content}

\* the argument lists tried with  append(*messages)
AppendArgs ==
    {<<d>> : d \in AcceptedDicts \cup RefusedDicts}
    \cup {<<D_user, D_tool>>, <<D_tool, D_bad_role, D_none>>}

\* the observers: "o_ok" has an update that returns, "o_bad" one that raises
Observers == {"o_ok", "o_bad"}
UpdateRaises(observer) == observer = "o_bad"

RECURSIVE NotifyObservers_NoCatch(_, _, _)
\* (mutant) the notification loop without its try/except
NotifyObservers_NoCatch(observers, message, stored) ==
    IF observers = <<>> THEN [raises |-> FALSE, notes |-> <<>>]
    ELSE LET note == [observer |-> Head(observers), message |-> message, stored |-> stored,
                      raised |-> UpdateRaises(Head(observers))]
         IN IF note.raised THEN [raises |-> TRUE, notes |-> <<note>>]
            ELSE LET rest == NotifyObservers_NoCatch(Tail(observers), message, stored)
                 IN [raises |-> rest.raises, notes |-> <<note>> \o rest.notes]

RECURSIVE NotifyObservers(_, _, _)
\* append's loop over self._observers: update is called on each observer in
\* turn, inside try/except Exception; stored is len(self._messages) then
NotifyObservers(observers, message, stored) ==
    IF observers = <<>> THEN [raises |-> FALSE, notes |-> <<>>]
    ELSE LET note == [observer |-> Head(observers), message |-> message, stored |-> stored,
                      raised |-> UpdateRaises(Head(observers))]
             rest == NotifyObservers(Tail(observers), message, stored)
         IN [raises |-> rest.raises, notes |-> <<note>> \o rest.notes]

\* (mutant) a store that puts the new message first
ListAppend_Front(list, x) == <<x>> \o list

\* self._messages.append(normalized_message)
ListAppend(list, x) == Append(list, x)

RECURSIVE AppendAll_SkipInvalid(_, _, _)
\* (mutant) an append that passes over an invalid message and goes on
AppendAll_SkipInvalid(st, observers, ds) ==
    IF ds = <<>> THEN st
    ELSE LET m == message_from_dict(Head(ds))
         IN IF ~m.ok
            THEN [AppendAll_SkipInvalid(st, observers, Tail(ds)) EXCEPT !.raised = TRUE]
            ELSE LET heap2 == Append(st.heap, m.msg)
                     messages2 == ListAppend(st.messages, Len(heap2))
                     n == NotifyObservers(observers, m.msg, Len(messages2))
                     st2 == [heap |-> heap2, messages |-> messages2,
                             notes |-> st.notes \o n.notes,
                             hist |-> Append(st.hist, m.msg), raised |-> n.raises]
                 IN AppendAll_SkipInvalid(st2, observers, Tail(ds))

RECURSIVE AppendAll(_, _, _)
\* Conversation.append(*messages) on the conversation st = [heap, messages,
\* notes, hist, raised], with the observers given
AppendAll(st, observers, ds) ==
    IF ds = <<>> THEN st
    ELSE LET m == message_from_dict(Head(ds))
         IN IF ~m.ok THEN [st EXCEPT !.raised = TRUE]
            ELSE LET heap2 == Append(st.heap, m.msg)
                     messages2 == ListAppend(st.messages, Len(heap2))
                     n == NotifyObservers(observers, m.msg, Len(messages2))
                     st2 == [heap |-> heap2, messages |-> messages2,
                             notes |-> st.notes \o n.notes,
                             hist |-> Append(st.hist, m.msg), raised |-> n.raises]
                 IN IF n.raises THEN st2 ELSE AppendAll(st2, observers, Tail(ds))

\* the stored history: the dicts self._messages refers to, as they are now
Stored == [i \in 1..Len(c_messages) |-> c_heap[c_messages[i]]]

\* json.dumps of a string
JsonEscapeChar(ch) ==
    IF ch = "\"" THEN <<"\\", "\"">>
    ELSE IF ch = "\\" THEN <<"\\", "\\">>
    ELSE IF ch = "\n" THEN <<"\\", "n">>
    ELSE <<ch>>

\* (mutant) a serialisation that writes the characters of a string as they are
JsonEscape_Raw(s) == s

JsonEscape(s) == Join([i \in 1..Len(s) |-> JsonEscapeChar(s[i])], <<>>)

JsonString(s) == <<"\"">> \o JsonEscape(s) \o <<"\"">>

JsonPair(key, value) == JsonString(<<key>>) \o <<":", " ">> \o JsonString(value)

\* json.dumps of one stored message, indent=2: the keys the dict has
JsonObject(m) ==
    LET pairs == <<JsonPair("role", <<m.role>>), JsonPair("content", m.content)>>
                 \o (IF m.tool_call_id = Absent THEN <<>>
                     ELSE <<JsonPair("tool_call_id", <<m.tool_call_id>>)>>)
                 \o (IF m.name = Absent THEN <<>> ELSE <<JsonPair("name", <<m.name>>)>>)
    IN <<"{", "\n", "    ">> \o Join(pairs, <<",", "\n", "    ">>) \o <<"\n", "  ", "}">>

\* Conversation.to_json: json.dumps(self._messages, indent=2, ensure_ascii=False)
to_json(messages) ==
    IF messages = <<>> THEN <<"[", "]">>
    ELSE <<"[", "\n", "  ">>
         \o Join([i \in 1..Len(messages) |-> JsonObject(messages[i])], <<",", "\n", "  ">>)
         \o <<"\n", "]">>

\* json.loads: white space between the tokens of a text
JsonWhitespace == {"\n", " ", "  ", "    "}

RECURSIVE SkipWhitespace(_, _)
SkipWhitespace(text, i) ==
    IF i <= Len(text) /\ text[i] \in JsonWhitespace THEN SkipWhitespace(text, i + 1) ELSE i

RECURSIVE ReadString(_, _, _)
\* json.loads: the characters of a string up to its closing quote, from i
ReadString(text, i, acc) ==
    IF i > Len(text) THEN [ok |-> FALSE, value |-> acc, next |-> i]
    ELSE IF text[i] = "\"" THEN [ok |-> TRUE, value |-> acc, next |-> i + 1]
    ELSE IF text[i] = "\\"
    THEN IF i + 1 > Len(text) THEN [ok |-> FALSE, value |-> acc, next |-> i]
         ELSE ReadString(text, i + 2,
                         Append(acc, IF text[i + 1] = "n" THEN "\n" ELSE text[i + 1]))
    ELSE ReadString(text, i + 1, Append(acc, text[i]))

\* json.loads: a string that starts at i
ParseString(text, i) ==
    IF i <= Len(text) /\ text[i] = "\"" THEN ReadString(text, i + 1, <<>>)
    ELSE [ok |-> FALSE, value |-> <<>>, next |-> i]

\* a dict without keys
EmptyDict ==
    [role |-> Absent, has_content |-> FALSE, content |-> RawNone,
     tool_call_id |-> Absent, name |-> Absent, tool_calls |-> <<>>]

\* d[key] = value  for the keys of a message
SetKey(d, key, value) ==
    IF key = <<"role">> THEN [d EXCEPT !.role = IF Len(value) = 1 THEN value[1] ELSE "?"]
    ELSE IF key = <<"content">> THEN [d EXCEPT !.has_content = TRUE, !.content = RawStr(value)]
    ELSE IF key = <<"tool_call_id">>
    THEN [d EXCEPT !.tool_call_id = IF Len(value) = 1 THEN value[1] ELSE "?"]
    ELSE IF key = <<"name">> THEN [d EXCEPT !.name = IF Len(value) = 1 THEN value[1] ELSE "?"]
    ELSE d

RECURSIVE ParsePairs(_, _, _)
\* json.loads: the pairs of an object, from i, up to its closing brace
ParsePairs(text, i, d) ==
    LET j == SkipWhitespace(text, i)
    IN IF j > Len(text) THEN [ok |-> FALSE, value |-> d, next |-> j]
       ELSE IF text[j] = "}" THEN [ok |-> TRUE, value |-> d, next |-> j + 1]
       ELSE IF text[j] = "," THEN ParsePairs(text, j + 1, d)
       ELSE LET key == ParseString(text, j)
                colon == SkipWhitespace(text, key.next)
            IN IF ~key.ok \/ colon > Len(text) \/ text[colon] # ":"
               THEN [ok |-> FALSE, value |-> d, next |-> j]
               ELSE LET value == ParseString(text, SkipWhitespace(text, colon + 1))
                    IN IF ~value.ok THEN [ok |-> FALSE, value |-> d, next |-> j]
                       ELSE ParsePairs(text, value.next, SetKey(d, key.value, value.value))

RECURSIVE ParseObjects(_, _, _)
\* json.loads: the objects of a list, from i, up to its closing bracket
ParseObjects(text, i, acc) ==
    LET j == SkipWhitespace(text, i)
    IN IF j > Len(text) THEN [ok |-> FALSE, value |-> acc]
       ELSE IF text[j] = "]" THEN [ok |-> TRUE, value |-> acc]
       ELSE IF text[j] = "," THEN ParseObjects(text, j + 1, acc)
       ELSE IF text[j] = "{"
       THEN LET o == ParsePairs(text, j + 1, EmptyDict)
            IN IF o.ok THEN ParseObjects(text, o.next, Append(acc, o.value))
               ELSE [ok |-> FALSE, value |-> acc]
       ELSE [ok |-> FALSE, value |-> acc]

\* json.loads of a text that holds a list of message objects
json_loads(text) ==
    LET j == SkipWhitespace(text, 1)
    IN IF j <= Len(text) /\ text[j] = "[" THEN ParseObjects(text, j + 1, <<>>)
       ELSE [ok |-> FALSE, value |-> <<>>]

\* the digits of a JSON number
Digits == {"0", "1", "2", "3", "4", "5", "6", "7", "8", "9"}

RECURSIVE ReadDigits(_, _, _)
\* json.loads: the digits of an integer, from i
ReadDigits(text, i, acc) ==
    IF i <= Len(text) /\ text[i] \in Digits THEN ReadDigits(text, i + 1, Append(acc, text[i]))
    ELSE [ok |-> acc # <<>>, value |-> acc, next |-> i]

\* d[key] = value  for a dict kept as the sequence of its pairs
SetPair(pairs, key, value) ==
    IF \E i \in 1..Len(pairs) : pairs[i].key = key
    THEN [i \in 1..Len(pairs) |-> IF pairs[i].key = key THEN [key |-> key, value |-> value]
                                  ELSE pairs[i]]
    ELSE Append(pairs, [key |-> key, value |-> value])

RECURSIVE ReadMembers(_, _, _, _)
\* json.loads: the members of an object whose values are strings, from i, up
\* to the closing brace; first: no member has been read yet
ReadMembers(text, i, pairs, first) ==
    LET j == SkipWhitespace(text, i)
    IN IF j > Len(text) THEN [ok |-> FALSE, value |-> pairs, next |-> j]
       ELSE IF first /\ text[j] = "}" THEN [ok |-> TRUE, value |-> pairs, next |-> j + 1]
       ELSE LET key == ParseString(text, j)
                colon == SkipWhitespace(text, key.next)
            IN IF ~key.ok \/ Len(key.value) # 1 \/ colon > Len(text) \/ text[colon] # ":"
               THEN [ok |-> FALSE, value |-> pairs, next |-> j]
               ELSE LET value == ParseString(text, SkipWhitespace(text, colon + 1))
                        k == SkipWhitespace(text, value.next)
                        more == SetPair(pairs, key.value[1], value.value)
                    IN IF ~value.ok \/ k > Len(text)
                       THEN [ok |-> FALSE, value |-> pairs, next |-> j]
                       ELSE IF text[k] = "}" THEN [ok |-> TRUE, value |-> more, next |-> k + 1]
                       ELSE IF text[k] = "," THEN ReadMembers(text, k + 1, more, FALSE)
                       ELSE [ok |-> FALSE, value |-> pairs, next |-> k]

RECURSIVE ReadElements(_, _, _, _)
\* json.loads: the elements of a list of integers, from i, up to the closing
\* bracket
ReadElements(text, i, items, first) ==
    LET j == SkipWhitespace(text, i)
    IN IF j > Len(text) THEN [ok |-> FALSE, value |-> items, next |-> j]
       ELSE IF first /\ text[j] = "]" THEN [ok |-> TRUE, value |-> items, next |-> j + 1]
       ELSE LET n == ReadDigits(text, j, <<>>)
                k == SkipWhitespace(text, n.next)
                more == items \o (IF items = <<>> THEN <<>> ELSE <<", ">>) \o n.value
            IN IF ~n.ok \/ k > Len(text) THEN [ok |-> FALSE, value |-> items, next |-> j]
               ELSE IF text[k] = "]" THEN [ok |-> TRUE, value |-> more, next |-> k + 1]
               ELSE IF text[k] = "," THEN ReadElements(text, k + 1, more, FALSE)
               ELSE [ok |-> FALSE, value |-> items, next |-> k]

\* json.loads: the value that starts at i
ReadValue(text, i) ==
    IF i > Len(text) THEN [ok |-> FALSE, value |-> ArgNone, next |-> i]
    ELSE IF text[i] = "{"
    THEN LET o == ReadMembers(text, i + 1, <<>>, TRUE)
         IN [ok |-> o.ok, value |-> ArgDict(o.value), next |-> o.next]
    ELSE IF text[i] = "["
    THEN LET l == ReadElements(text, i + 1, <<>>, TRUE)
         IN [ok |-> l.ok, value |-> ArgList(l.value), next |-> l.next]
    ELSE IF text[i] = "\""
    THEN LET t == ParseString(text, i)
         IN [ok |-> t.ok, value |-> ArgStr(t.value), next |-> t.next]
    ELSE IF i + 3 <= Len(text) /\ SubSeq(text, i, i + 3) = <<"n", "u", "l", "l">>
    THEN [ok |-> TRUE, value |-> ArgNone, next |-> i + 4]
    ELSE LET n == ReadDigits(text, i, <<>>)
         IN [ok |-> n.ok, value |-> ArgInt(n.value), next |-> n.next]

\* json.loads of the text of a tool call's arguments: one value and nothing
\* but white space after it, or an exception
JsonLoads(text) ==
    LET v == ReadValue(text, SkipWhitespace(text, 1))
    IN IF v.ok /\ SkipWhitespace(text, v.next) > Len(text)
       THEN [raises |-> FALSE, value |-> v.value]
       ELSE [raises |-> TRUE, value |-> ArgNone]

\* run_step's parsing of function.arguments: what the handler is called with
ParseArguments(function_arguments) ==
    LET raw_args == IF function_arguments.type = "absent" THEN ArgStr(<<"{", "}">>)
                    ELSE function_arguments
    IN IF raw_args.type = "str"
       THEN LET loaded == JsonLoads(raw_args.text)
            IN IF loaded.raises THEN ArgDict(<<>>) ELSE loaded.value
       ELSE IF raw_args.type = "dict" THEN raw_args
       ELSE ArgDict(<<>>)

NotLoaded == [set |-> FALSE, raised |-> FALSE, messages |-> <<>>]

\* Conversation.from_json: json.loads, then Conversation(messages=...), which
\* appends each message to a new conversation without observers
from_json(text) ==
    LET parsed == json_loads(text)
    IN IF ~parsed.ok THEN [set |-> TRUE, raised |-> TRUE, messages |-> <<>>]
       ELSE LET st == AppendAll([heap |-> <<>>, messages |-> <<>>, notes |-> <<>>,
                                 hist |-> <<>>, raised |-> FALSE], <<>>, parsed.value)
            IN [set |-> TRUE, raised |-> st.raised,
                messages |-> [i \in 1..Len(st.messages) |-> st.heap[st.messages[i]]]]

NoOp == [op |-> "none", args |-> <<>>, raised |-> FALSE, observers |-> <<>>,
         stored |-> 0, notes |-> 0]

\* what an operation leaves in c_last: its name, its arguments, whether it
\* raised, and the observers, the stored length and the notes when it began
Op(name, args, raised) ==
    [op |-> name, args |-> args, raised |-> raised, observers |-> c_observers,
     stored |-> Len(c_messages), notes |-> Len(c_notes)]

NoText == [set |-> FALSE, text |-> <<>>]

ConvInit ==
    /\ c_heap = <<>>
    /\ c_messages = <<>>
    /\ c_observers = <<>>
    /\ c_view = [held |-> FALSE, items |-> <<>>]
    /\ c_text = NoText
    /\ c_file = NoText
    /\ c_loaded = NotLoaded
    /\ c_last = NoOp
    /\ c_ops = 0
    /\ c_notes = <<>>
    /\ c_hist = <<>>

\* conversation.append(*ds)
ConvAppend ==
    /\ c_ops < MaxConvOps
    /\ \E ds \in AppendArgs :
          LET st == AppendAll([heap |-> c_heap, messages |-> c_messages, notes |-> c_notes,
                               hist |-> c_hist, raised |-> FALSE], c_observers, ds)
          IN /\ c_heap' = st.heap
             /\ c_messages' = st.messages
             /\ c_notes' = st.notes
             /\ c_hist' = st.hist
             /\ c_last' = Op("append", ds, st.raised)
    /\ c_ops' = c_ops + 1
    /\ UNCHANGED <<c_observers, c_view, c_text, c_file, c_loaded>>
    /\ UNCHANGED <<runVars, localVars, genVars, stepVars, mcpVars, evalVars, sessVars>>

\* Conversation(messages): a new conversation, without observers, to which
\* the messages given are appended one by one
Construct(ds) ==
    LET st == AppendAll([heap |-> <<>>, messages |-> <<>>, notes |-> <<>>,
                         hist |-> <<>>, raised |-> FALSE], <<>>, ds)
    IN [set |-> TRUE, raised |-> st.raised,
        messages |-> [i \in 1..Len(st.messages) |-> st.heap[st.messages[i]]]]

\* a caller builds another conversation from a list of messages
ConvConstruct ==
    /\ c_ops < MaxConvOps
    /\ \E ds \in AppendArgs :
          /\ c_loaded' = Construct(ds)
          /\ c_last' = Op("construct", ds, c_loaded'.raised)
    /\ c_ops' = c_ops + 1
    /\ UNCHANGED <<c_heap, c_messages, c_observers, c_view, c_text, c_file, c_notes, c_hist>>
    /\ UNCHANGED <<runVars, localVars, genVars, stepVars, mcpVars, evalVars, sessVars>>

\* conversation.messages: self._messages.copy(), a new list of the same dicts
ConvMessages ==
    /\ c_ops < MaxConvOps
    /\ c_view' = [held |-> TRUE, items |-> c_messages]
    /\ c_last' = Op("messages", <<>>, FALSE)
    /\ c_ops' = c_ops + 1
    /\ UNCHANGED <<c_heap, c_messages, c_observers, c_text, c_file, c_loaded, c_notes, c_hist>>
    /\ UNCHANGED <<runVars, localVars, genVars, stepVars, mcpVars, evalVars, sessVars>>

\* the caller removes the last entry of the list it got
CallerPopsEntry ==
    /\ c_ops < MaxConvOps
    /\ c_view.held /\ c_view.items # <<>>
    /\ c_view' = [c_view EXCEPT !.items = SubSeq(c_view.items, 1, Len(c_view.items) - 1)]
    /\ c_last' = Op("caller_pop", <<>>, FALSE)
    /\ c_ops' = c_ops + 1
    /\ UNCHANGED <<c_heap, c_messages, c_observers, c_text, c_file, c_loaded, c_notes, c_hist>>
    /\ UNCHANGED <<runVars, localVars, genVars, stepVars, mcpVars, evalVars, sessVars>>

\* the caller adds an entry to the list it got
CallerAddsEntry ==
    /\ c_ops < MaxConvOps
    /\ c_view.held /\ c_view.items # <<>>
    /\ c_view' = [c_view EXCEPT !.items = Append(c_view.items, c_view.items[1])]
    /\ c_last' = Op("caller_add", <<>>, FALSE)
    /\ c_ops' = c_ops + 1
    /\ UNCHANGED <<c_heap, c_messages, c_observers, c_text, c_file, c_loaded, c_notes, c_hist>>
    /\ UNCHANGED <<runVars, localVars, genVars, stepVars, mcpVars, evalVars, sessVars>>

\* the caller assigns the content of a message in the list it got:
\* conversation.messages[i]["content"] = "edited"
CallerEditsField ==
    /\ c_ops < MaxConvOps
    /\ c_view.held
    /\ \E i \in 1..Len(c_view.items) :
          c_heap' = [c_heap EXCEPT ![c_view.items[i]].content = S_edited]
    /\ c_last' = Op("caller_edit", <<>>, FALSE)
    /\ c_ops' = c_ops + 1
    /\ UNCHANGED <<c_messages, c_observers, c_view, c_text, c_file, c_loaded, c_notes, c_hist>>
    /\ UNCHANGED <<runVars, localVars, genVars, stepVars, mcpVars, evalVars, sessVars>>

\* conversation.register_observer(o)
RegisterObserver ==
    /\ c_ops < MaxConvOps
    /\ \E o \in Observers :
          /\ c_observers' = IF \E i \in 1..Len(c_observers) : c_observers[i] = o
                            THEN c_observers ELSE Append(c_observers, o)
          /\ c_last' = Op("register", <<o>>, FALSE)
    /\ c_ops' = c_ops + 1
    /\ UNCHANGED <<c_heap, c_messages, c_view, c_text, c_file, c_loaded, c_notes, c_hist>>
    /\ UNCHANGED <<runVars, localVars, genVars, stepVars, mcpVars, evalVars, sessVars>>

\* conversation.unregister_observer(o)
UnregisterObserver ==
    /\ c_ops < MaxConvOps
    /\ \E o \in Observers :
          /\ c_observers' = SelectSeq(c_observers, LAMBDA x : x # o)
          /\ c_last' = Op("unregister", <<o>>, FALSE)
    /\ c_ops' = c_ops + 1
    /\ UNCHANGED <<c_heap, c_messages, c_view, c_text, c_file, c_loaded, c_notes, c_hist>>
    /\ UNCHANGED <<runVars, localVars, genVars, stepVars, mcpVars, evalVars, sessVars>>

\* conversation.to_json()
ConvToJson ==
    /\ c_ops < MaxConvOps
    /\ c_text' = [set |-> TRUE, text |-> to_json(Stored)]
    /\ c_last' = Op("to_json", <<>>, FALSE)
    /\ c_ops' = c_ops + 1
    /\ UNCHANGED <<c_heap, c_messages, c_observers, c_view, c_file, c_loaded, c_notes, c_hist>>
    /\ UNCHANGED <<runVars, localVars, genVars, stepVars, mcpVars, evalVars, sessVars>>

\* Conversation.from_json(text) on the text to_json gave
ConvFromJson ==
    /\ c_ops < MaxConvOps
    /\ c_text.set
    /\ c_loaded' = from_json(c_text.text)
    /\ c_last' = Op("from_json", <<>>, c_loaded'.raised)
    /\ c_ops' = c_ops + 1
    /\ UNCHANGED <<c_heap, c_messages, c_observers, c_view, c_text, c_file, c_notes, c_hist>>
    /\ UNCHANGED <<runVars, localVars, genVars, stepVars, mcpVars, evalVars, sessVars>>

\* conversation.save(path): write_text(self.to_json())
ConvSave ==
    /\ c_ops < MaxConvOps
    /\ c_file' = [set |-> TRUE, text |-> to_json(Stored)]
    /\ c_last' = Op("save", <<>>, FALSE)
    /\ c_ops' = c_ops + 1
    /\ UNCHANGED <<c_heap, c_messages, c_observers, c_view, c_text, c_loaded, c_notes, c_hist>>
    /\ UNCHANGED <<runVars, localVars, genVars, stepVars, mcpVars, evalVars, sessVars>>

\* Conversation.load(path): from_json(read_text()), FileNotFoundError without the file
ConvLoad ==
    /\ c_ops < MaxConvOps
    /\ c_loaded' = IF c_file.set THEN from_json(c_file.text)
                   ELSE [set |-> TRUE, raised |-> TRUE, messages |-> <<>>]
    /\ c_last' = Op("load", <<>>, c_loaded'.raised)
    /\ c_ops' = c_ops + 1
    /\ UNCHANGED <<c_heap, c_messages, c_observers, c_view, c_text, c_file, c_notes, c_hist>>
    /\ UNCHANGED <<runVars, localVars, genVars, stepVars, mcpVars, evalVars, sessVars>>

ConvNext ==
    \/ ConvAppend
    \/ ConvConstruct
    \/ ConvMessages
    \/ CallerPopsEntry
    \/ CallerAddsEntry
    \/ CallerEditsField
    \/ RegisterObserver
    \/ UnregisterObserver
    \/ ConvToJson
    \/ ConvFromJson
    \/ ConvSave
    \/ ConvLoad

\* ------------------------------------------------------------------ run_step, one call
S_A == <<"A">>
S_d == <<"d">>

\* the results a handler returns: lists of content blocks
BlockLists ==
    { <<>>,
      <<TextBlock(S_A)>>,
      <<TextBlock(S_A), JsonBlock(<<[key |-> "x", value |-> "1"]>>)>>,
      <<OtherBlock("image", S_d), TextBlock(S_A)>>,
      <<JsonBlock(<<[key |-> "x", value |-> "1"], [key |-> "y", value |-> "2"]>>)>> }

\* an allow-list with these names
Allow(names) == [set |-> TRUE, names |-> names]

\* the providers and allow-lists tried: a provider with a tool named like a
\* local tool, without an allow-list, with allow-lists that leave tools out,
\* with the empty allow-list and with one that names a tool no provider has
McpSetups ==
    { [provider |-> <<"git_status", "read_file">>, allowed |-> AllowAll],
      [provider |-> <<"git_status", "read_file">>, allowed |-> Allow({"git_status"})],
      [provider |-> <<"git_status", "read_file">>, allowed |-> Allow({})],
      [provider |-> <<"git_log", "read_file", "git_status", "git_diff">>,
       allowed |-> Allow({"git_status", "git_push", "git_log"})] }

\* the values of function.arguments tried: objects, JSON texts of an object,
\* of null, of a list and of a number, a text cut short, and an int
S_path_a == <<"{", "\"", "path", "\"", ":", " ", "\"", "a", "\"", "}">>
S_cut_short == <<"{", "\"", "path", "\"", ":">>
S_null == <<"n", "u", "l", "l">>
ArgumentForms ==
    { ArgDict(<<>>),
      ArgDict(<<[key |-> "path", value |-> <<"a">>]>>),
      ArgStr(S_path_a),
      ArgStr(S_cut_short),
      ArgStr(<<>>),
      ArgStr(S_null),
      ArgStr(<<"[", "1", "]">>),
      ArgInt(<<"5">>) }

\* the names in the tool calls of the payload; Absent: a call without a name
StepNames == CallNames \cup {Absent}

\* the functions of the tool calls tried: every name without arguments, and
\* read_file with every form of arguments
StepFunctions ==
    { [name |-> n, arguments |-> ArgAbsent] : n \in StepNames }
    \cup { [name |-> "read_file", arguments |-> a] : a \in ArgumentForms }

\* the tool-call lists of the payload, with at most n calls
StepToolCallLists(n) ==
    UNION { { [i \in 1..len |-> [id |-> CallIds[i], name |-> f[i].name,
                                 arguments |-> f[i].arguments]] :
              f \in [1..len -> StepFunctions] } : len \in 0..n }

\* what the handler of a tool call can do in this step, called with
\* arguments: an unknown name raises; arguments that are no dict raise a
\* TypeError where the handler subscripts them (None is an empty dict to the
\* provider's client); otherwise the handler returns blocks or raises
StepOutcomes(route, tool_call, arguments) ==
    IF route = "local" /\ tool_call.name \notin LocalToolNames
    THEN HandlerOutcomes(route, tool_call.name)
    ELSE IF arguments.type # "dict" /\ ~(route = "remote" /\ arguments.type = "none")
    THEN { [kind |-> "raise", blocks |-> <<>>, err |-> <<"TypeError">>] }
    ELSE IF tool_call.arguments.type = "absent"
    THEN { [kind |-> "blocks", blocks |-> bl, err |-> <<>>] : bl \in BlockLists }
         \cup { [kind |-> "raise", blocks |-> <<>>, err |-> <<"Failed to call tool">>] }
    ELSE { [kind |-> "blocks", blocks |-> <<TextBlock(S_A)>>, err |-> <<>>],
           [kind |-> "raise", blocks |-> <<>>, err |-> <<"Failed to call tool">>] }

StepInit ==
    /\ s_pc = "get_tools"
    /\ \E setup \in McpSetups :
          /\ s_provider_tools = setup.provider
          /\ s_allowed_tools = setup.allowed
    /\ s_mcp_tools = [called |-> FALSE, names |-> <<>>]
    /\ s_names = {}
    /\ s_tool_calls = <<>>
    /\ s_index = 1
    /\ s_conversation = create_initial_conversation
    /\ s_log = <<>>

\* DevAgent._get_available_tools: list_tools returns the allowed tools of the provider
StepGetTools ==
    /\ s_pc = "get_tools"
    /\ LET mcp_tools == ListToolsFilter(s_provider_tools, s_allowed_tools)
       IN /\ s_mcp_tools' = [called |-> TRUE, names |-> mcp_tools]
          /\ s_names' = {mcp_tools[i] : i \in 1..Len(mcp_tools)}
    /\ s_pc' = "generate"
    /\ UNCHANGED <<s_provider_tools, s_allowed_tools, s_tool_calls, s_index, s_conversation,
                   s_log>>
    /\ UNCHANGED <<runVars, localVars, genVars, convVars, mcpVars, evalVars, sessVars>>

\* the payload arrives and the assistant message is appended
StepGenerate ==
    /\ s_pc = "generate"
    /\ \E tcs \in StepToolCallLists(MaxCalls) :
          /\ s_tool_calls' = tcs
          /\ s_conversation' =
                ConversationAppend(s_conversation,
                    [Dict("assistant", NormalizeAssistantContent(RawNone))
                        EXCEPT !.tool_calls = tcs]).messages
          /\ s_pc' = IF tcs # <<>> THEN "dispatch" ELSE "done"
    /\ s_index' = 1
    /\ UNCHANGED <<s_provider_tools, s_allowed_tools, s_mcp_tools, s_names, s_log>>
    /\ UNCHANGED <<runVars, localVars, genVars, convVars, mcpVars, evalVars, sessVars>>

\* one iteration of the loop over the tool calls
StepDispatch ==
    /\ s_pc = "dispatch"
    /\ LET tool_call == CallAt(s_tool_calls, s_index)
           arguments == ParseArguments(tool_call.arguments)
           route == Route(tool_call.name, s_names)
       IN \E outcome \in StepOutcomes(route, tool_call, arguments) :
             LET r == ToolCallMessage(tool_call, outcome)
             IN /\ s_log' = Append(s_log, [index |-> s_index, call |-> tool_call,
                                           arguments |-> arguments,
                                           route |-> route, outcome |-> outcome,
                                           raises |-> r.raises,
                                           at |-> Len(s_conversation) + 1])
                /\ IF r.raises
                   THEN /\ s_pc' = "raised"
                        /\ UNCHANGED <<s_conversation, s_index>>
                   ELSE /\ s_conversation' = ConversationAppend(s_conversation, r.msg).messages
                        /\ s_index' = s_index + 1
                        /\ s_pc' = IF s_index = Len(s_tool_calls) THEN "done" ELSE "dispatch"
    /\ UNCHANGED <<s_provider_tools, s_allowed_tools, s_mcp_tools, s_names, s_tool_calls>>
    /\ UNCHANGED <<runVars, localVars, genVars, convVars, mcpVars, evalVars, sessVars>>

StepNext ==
    \/ StepGetTools
    \/ StepGenerate
    \/ StepDispatch

\* ------------------------------------------------------------------ MCPToolClient
MaxTailLen == 3
MaxMcpOps == 2

\* the executables and the pieces of a repository path in an address
Executables == { <<"python">>, <<"py">> }
TailPieces == {"C", ":", "/repo"}
PathTails == UNION { [1..n -> TailPieces] : n \in 0..MaxTailLen }

\* stdio://<executable>:-m:mcp_server_git:--repository:<path>
StdioGitUrl(executable, path) ==
    <<"stdio://">> \o executable
    \o <<":", "-m", ":", "mcp_server_git", ":", "--repository", ":">> \o path

\* the addresses tried as base_url: every address of that form, an address
\* without the path, an address of another scheme, a command without
\* arguments and a command with other arguments
McpUrls ==
    { StdioGitUrl(e, p) : e \in Executables, p \in PathTails }
    \cup { Url_no_tail, Url_http, <<"stdio://", "python">>,
           <<"stdio://", "python", ":", "-m", ":", "other", ":", "x", ":", "y">> }

\* default_repo_path: None, or a path
NoDefault == [set |-> FALSE, path |-> <<>>]
DefaultRepoPaths == { NoDefault, [set |-> TRUE, path |-> <<"/r">>], [set |-> TRUE, path |-> <<>>] }

\* the arguments call_tool is called with: None or a dict
McpArguments ==
    { ArgNone,
      ArgDict(<<>>),
      ArgDict(<<[key |-> "path", value |-> <<"a">>]>>),
      ArgDict(<<[key |-> "repo_path", value |-> <<"/x">>]>>),
      ArgDict(<<[key |-> "repo_path", value |-> <<>>]>>),
      ArgDict(<<[key |-> "path", value |-> <<"a">>], [key |-> "repo_path", value |-> <<"/x">>]>>) }

\* key in d  for a dict kept as the sequence of its pairs
HasKey(pairs, key) == \E i \in 1..Len(pairs) : pairs[i].key = key

\* (mutant) an injection that overrides a repo_path the caller supplied
InjectRepoPath_Always(arguments, default) ==
    IF default.set THEN ArgDict(SetPair(arguments.pairs, "repo_path", default.path))
    ELSE arguments

\* call_tool: the default repo_path is added to arguments that have none
InjectRepoPath(arguments, default) ==
    IF ~HasKey(arguments.pairs, "repo_path") /\ default.set
    THEN ArgDict(SetPair(arguments.pairs, "repo_path", default.path))
    ELSE arguments

\* call_tool: arguments of None become an empty dict
NormalizeArguments(arguments) == IF arguments.type = "none" THEN ArgDict(<<>>) ELSE arguments

\* the content a tool of the provider returns: lists of [kind, text]
ContentLists ==
    { <<>>,
      <<[kind |-> "TextContent", text |-> S_A],
        [kind |-> "ImageContent", text |-> S_d], [kind |-> "EmbeddedResource", text |-> S_d],
        [kind |-> "AudioContent", text |-> S_d]>> }

\* call_tool: the content block of one content item
MapContent(content) ==
    IF content.kind = "TextContent" THEN TextBlock(content.text)
    ELSE IF content.kind = "ImageContent" THEN OtherBlock("image", content.text)
    ELSE IF content.kind = "EmbeddedResource"
    THEN [type |-> "resource", data |-> <<>>,
          json |-> <<[key |-> "uri", value |-> "u"], [key |-> "mimeType", value |-> "t"]>>]
    ELSE TextBlock(<<"str(content)">>)

\* what a call of the client did: the launch parameters of the child process
\* when the transport was built, the tools listed, the name and the arguments
\* sent to the session, the blocks returned, or the exception raised
NoMcpCall ==
    [op |-> "none", raises |-> FALSE, exc |-> "none", launched |-> FALSE,
     command |-> <<>>, args |-> <<>>, listed |-> <<>>, name |-> "none",
     given |-> ArgNone, is_sent |-> FALSE, sent |-> ArgNone, blocks |-> <<>>]

McpInit ==
    /\ m_base_url \in McpUrls
    /\ \E setup \in McpSetups :
          /\ m_provider_tools = setup.provider
          /\ m_allowed_tools = setup.allowed
    /\ m_default_repo_path \in DefaultRepoPaths
    /\ m_last = NoMcpCall
    /\ m_ops = 0

\* MCPToolClient.list_tools; session_fails: the child process or the session
\* fails, which the method raises again as a RuntimeError
McpListTools ==
    /\ m_ops < MaxMcpOps
    /\ \E session_fails \in BOOLEAN, t \in {GetTransportContext(m_base_url)} :
          LET raises == t.raises \/ session_fails
          IN m_last' = [NoMcpCall EXCEPT
                           !.op = "list_tools",
                           !.raises = raises,
                           !.exc = IF raises THEN "RuntimeError" ELSE "none",
                           !.launched = ~t.raises,
                           !.command = t.command,
                           !.args = t.args,
                           !.listed = IF raises THEN <<>>
                                      ELSE ListToolsFilter(m_provider_tools, m_allowed_tools)]
    /\ m_ops' = m_ops + 1
    /\ UNCHANGED <<m_base_url, m_allowed_tools, m_default_repo_path, m_provider_tools>>
    /\ UNCHANGED <<runVars, localVars, genVars, convVars, stepVars, evalVars, sessVars>>

\* MCPToolClient.call_tool(name, arguments)
McpCallTool ==
    /\ m_ops < MaxMcpOps
    /\ \E t \in {GetTransportContext(m_base_url)}, given \in McpArguments,
          session_fails \in BOOLEAN, content \in ContentLists :
          LET arguments == InjectRepoPath(NormalizeArguments(given), m_default_repo_path)
              raises == t.raises \/ session_fails
          IN m_last' = [NoMcpCall EXCEPT
                           !.op = "call_tool",
                           !.raises = raises,
                           !.exc = IF raises THEN "RuntimeError" ELSE "none",
                           !.launched = ~t.raises,
                           !.command = t.command,
                           !.args = t.args,
                           !.name = "git_status",
                           !.given = given,
                           !.is_sent = ~t.raises,
                           !.sent = IF t.raises THEN ArgNone ELSE arguments,
                           !.blocks = IF raises THEN <<>>
                                      ELSE [i \in 1..Len(content) |-> MapContent(content[i])]]
    /\ m_ops' = m_ops + 1
    /\ UNCHANGED <<m_base_url, m_allowed_tools, m_default_repo_path, m_provider_tools>>
    /\ UNCHANGED <<runVars, localVars, genVars, convVars, stepVars, evalVars, sessVars>>

McpNext ==
    \/ McpListTools
    \/ McpCallTool

\* ------------------------------------------------------------------ check_compile
MaxEvalOps == 2

\* the files a repository can hold
RepoFiles ==
    { [dir |-> "", name |-> "README", ext |-> "md"],
      [dir |-> "", name |-> "setup", ext |-> "py"],
      [dir |-> "src", name |-> "app", ext |-> "py"],
      [dir |-> "tests", name |-> "test_app", ext |-> "py"] }

\* what running the command does: the process exits with a return code and
\* has written to stderr, it is still running at the timeout, or it cannot be
\* started
S_no_python == <<"No Python files found">>
CommandOutcomes ==
    { [kind |-> "exit", returncode |-> 0, stderr |-> <<>>],
      [kind |-> "exit", returncode |-> 5, stderr |-> <<>>],
      [kind |-> "exit", returncode |-> 5, stderr |-> S_no_python],
      [kind |-> "exit", returncode |-> 2, stderr |-> <<"SyntaxError: invalid syntax">>],
      [kind |-> "timeout", returncode |-> 0, stderr |-> <<>>],
      [kind |-> "error", returncode |-> 0, stderr |-> <<>>] }

\* run_command(command, cwd, timeout): (success, stdout, stderr)
RunCommand(outcome) ==
    IF outcome.kind = "exit"
    THEN [success |-> outcome.returncode = 0, stderr |-> outcome.stderr]
    ELSE IF outcome.kind = "timeout"
    THEN [success |-> FALSE, stderr |-> <<"Command timed out after 60 seconds">>]
    ELSE [success |-> FALSE, stderr |-> <<"str(e)">>]

\* stderr[:500], a token of the text standing for one character or more
First500(text) == SubSeq(text, 1, IF Len(text) < 500 THEN Len(text) ELSE 500)

\* check_compile(repo_root): (success, notes); the files of the repository
\* are not looked at
CheckCompile(repo, outcome) ==
    LET r == RunCommand(outcome)
    IN [success |-> r.success,
        notes |-> IF ~r.success
                  THEN <<"Compile check failed. stderr: ">> \o First500(r.stderr)
                  ELSE <<>>]

NoCheck == [called |-> FALSE, success |-> FALSE, notes |-> <<>>]

EvalInit ==
    /\ e_repo \in SUBSET RepoFiles
    /\ e_last = NoCheck
    /\ e_ops = 0

\* check_compile(repo_root) is called
CallCheckCompile ==
    /\ e_ops < MaxEvalOps
    /\ \E outcome \in CommandOutcomes :
          LET r == CheckCompile(e_repo, outcome)
          IN e_last' = [called |-> TRUE, success |-> r.success, notes |-> r.notes]
    /\ e_ops' = e_ops + 1
    /\ UNCHANGED e_repo
    /\ UNCHANGED <<runVars, localVars, genVars, convVars, stepVars, mcpVars, sessVars>>

EvalNext == CallCheckCompile

\* ------------------------------------------------------------------ specifications
\* ------------------------------------------------------------------ transport sessions of one run
MaxSessionOps == 3

\* the stages of a session that list_tools or call_tool goes through when
\* nothing fails
SessionStages ==
    <<"Disconnected", "spawn", "Connected", "Initialize", "Ready", "request", "Close">>

NoSessionOp == [name |-> "none", session |-> 0, stage |-> "none", failed |-> FALSE, trace |-> <<>>]

\* list_tools or call_tool is entered: no child process yet
StartOp(name) ==
    [name |-> name, session |-> 0, stage |-> "Disconnected", failed |-> FALSE,
     trace |-> <<"Disconnected">>]

\* the routes of the tool calls of one payload, with at most n remote calls
RouteLists(n) ==
    UNION { {r \in [1..len -> {"remote", "local"}] :
                Cardinality({i \in 1..len : r[i] = "remote"}) <= n} : len \in 0..MaxCalls }

SessInit ==
    /\ t_pc = "loop"
    /\ t_max_steps \in 0..MaxSteps
    /\ t_steps = 0
    /\ t_cached = FALSE
    /\ t_calls = <<>>
    /\ t_op = NoSessionOp
    /\ t_open = {}
    /\ t_next = 0
    /\ t_log = <<>>

\* run_task's  while steps < max_steps
SessLoopHead ==
    /\ t_pc = "loop"
    /\ t_pc' = IF LoopContinues(t_steps, t_max_steps) THEN "get_tools" ELSE "returned"
    /\ UNCHANGED <<t_max_steps, t_steps, t_cached, t_calls, t_op, t_open, t_next, t_log>>
    /\ UNCHANGED <<runVars, localVars, genVars, convVars, stepVars, mcpVars, evalVars>>

\* _get_available_tools: the cached catalog, or list_tools is entered
SessGetTools ==
    /\ t_pc = "get_tools"
    /\ IF t_cached
       THEN t_pc' = "generate" /\ t_op' = t_op
       ELSE t_pc' = "remote" /\ t_op' = StartOp("list_tools")
    /\ UNCHANGED <<t_max_steps, t_steps, t_cached, t_calls, t_open, t_next, t_log>>
    /\ UNCHANGED <<runVars, localVars, genVars, convVars, stepVars, mcpVars, evalVars>>

\* async with self._get_transport_context() as streams: the context cannot
\* be built or the child process cannot be started, or the process runs
SessSpawn ==
    /\ t_pc = "remote" /\ t_op.stage = "Disconnected"
    /\ \/ /\ t_op' = [t_op EXCEPT !.stage = "raising", !.failed = TRUE,
                                  !.trace = Append(@, "spawn")]
          /\ UNCHANGED <<t_open, t_next>>
       \/ /\ t_next' = t_next + 1
          /\ t_open' = t_open \cup {t_next + 1}
          /\ t_op' = [t_op EXCEPT !.stage = "Connected", !.session = t_next + 1,
                                  !.trace = @ \o <<"spawn", "Connected">>]
    /\ UNCHANGED <<t_pc, t_max_steps, t_steps, t_cached, t_calls, t_log>>
    /\ UNCHANGED <<runVars, localVars, genVars, convVars, stepVars, mcpVars, evalVars>>

\* async with ClientSession(read, write) as session: await session.initialize()
\* sends the handshake
SessInitialize ==
    /\ t_pc = "remote" /\ t_op.stage = "Connected"
    /\ t_op' = [t_op EXCEPT !.stage = "Initialize", !.trace = Append(@, "Initialize")]
    /\ UNCHANGED <<t_pc, t_max_steps, t_steps, t_cached, t_calls, t_open, t_next, t_log>>
    /\ UNCHANGED <<runVars, localVars, genVars, convVars, stepVars, mcpVars, evalVars>>

\* the handshake is answered, or it fails
SessHandshake ==
    /\ t_pc = "remote" /\ t_op.stage = "Initialize"
    /\ \/ t_op' = [t_op EXCEPT !.stage = "Ready", !.trace = Append(@, "Ready")]
       \/ t_op' = [t_op EXCEPT !.stage = "exiting", !.failed = TRUE]
    /\ UNCHANGED <<t_pc, t_max_steps, t_steps, t_cached, t_calls, t_open, t_next, t_log>>
    /\ UNCHANGED <<runVars, localVars, genVars, convVars, stepVars, mcpVars, evalVars>>

\* session.list_tools() or session.call_tool(name, arguments) and the
\* conversion of the answer, or the request fails
SessRequest ==
    /\ t_pc = "remote" /\ t_op.stage = "Ready"
    /\ \E fails \in BOOLEAN :
          t_op' = [t_op EXCEPT !.stage = "exiting", !.failed = fails,
                               !.trace = Append(@, "request")]
    /\ UNCHANGED <<t_pc, t_max_steps, t_steps, t_cached, t_calls, t_open, t_next, t_log>>
    /\ UNCHANGED <<runVars, localVars, genVars, convVars, stepVars, mcpVars, evalVars>>

\* (mutant) blocks that are left without closing the session
AsyncWithExit_Leak(open, session) == open

\* the exit of the two  async with  blocks: the session is closed and the
\* child process ended
AsyncWithExit(open, session) == open \ {session}

\* the  async with  blocks are left, by the return or by the exception
SessExit ==
    /\ t_pc = "remote" /\ t_op.stage = "exiting"
    /\ t_open' = AsyncWithExit(t_open, t_op.session)
    /\ t_op' = [t_op EXCEPT !.stage = IF t_op.failed THEN "raising" ELSE "returning",
                            !.trace = Append(@, "Close")]
    /\ UNCHANGED <<t_pc, t_max_steps, t_steps, t_cached, t_calls, t_next, t_log>>
    /\ UNCHANGED <<runVars, localVars, genVars, convVars, stepVars, mcpVars, evalVars>>

\* list_tools or call_tool returns or raises its RuntimeError: the catalog
\* is cached, run_step's except turns a failed call into a message, a failed
\* list_tools ends run_task in its except handler
SessOpEnd ==
    /\ t_pc = "remote" /\ t_op.stage \in {"returning", "raising"}
    /\ t_log' = Append(t_log, [name |-> t_op.name, session |-> t_op.session,
                               trace |-> t_op.trace, raises |-> t_op.failed,
                               open |-> t_open])
    /\ t_op' = NoSessionOp
    /\ IF t_op.name = "list_tools"
       THEN /\ t_cached' = ~t_op.failed
            /\ t_pc' = IF t_op.failed THEN "returned" ELSE "generate"
       ELSE /\ t_cached' = t_cached
            /\ t_pc' = IF t_calls = <<>> THEN "step_end" ELSE "dispatch"
    /\ UNCHANGED <<t_max_steps, t_steps, t_calls, t_open, t_next>>
    /\ UNCHANGED <<runVars, localVars, genVars, convVars, stepVars, mcpVars, evalVars>>

\* model_client.generate is called
SessGenerate ==
    /\ t_pc = "generate"
    /\ t_pc' = "generating"
    /\ UNCHANGED <<t_max_steps, t_steps, t_cached, t_calls, t_op, t_open, t_next, t_log>>
    /\ UNCHANGED <<runVars, localVars, genVars, convVars, stepVars, mcpVars, evalVars>>

\* the generation call raises, or returns a payload with its tool calls
SessGenerated ==
    /\ t_pc = "generating"
    /\ \/ t_pc' = "returned" /\ t_calls' = t_calls
       \/ \E routes \in RouteLists(MaxSessionOps - Len(t_log)) :
             /\ t_calls' = routes
             /\ t_pc' = IF routes = <<>> THEN "step_end" ELSE "dispatch"
    /\ UNCHANGED <<t_max_steps, t_steps, t_cached, t_op, t_open, t_next, t_log>>
    /\ UNCHANGED <<runVars, localVars, genVars, convVars, stepVars, mcpVars, evalVars>>

\* run_step's loop over the tool calls: call_tool of the client is entered,
\* or the call of the local executor is
SessDispatch ==
    /\ t_pc = "dispatch"
    /\ t_calls' = Tail(t_calls)
    /\ IF Head(t_calls) = "remote"
       THEN t_pc' = "remote" /\ t_op' = StartOp("call_tool")
       ELSE t_pc' = "local" /\ t_op' = t_op
    /\ UNCHANGED <<t_max_steps, t_steps, t_cached, t_open, t_next, t_log>>
    /\ UNCHANGED <<runVars, localVars, genVars, convVars, stepVars, mcpVars, evalVars>>

\* the local tool call returns or raises; run_step goes on either way
SessLocalDone ==
    /\ t_pc = "local"
    /\ t_pc' = IF t_calls = <<>> THEN "step_end" ELSE "dispatch"
    /\ UNCHANGED <<t_max_steps, t_steps, t_cached, t_calls, t_op, t_open, t_next, t_log>>
    /\ UNCHANGED <<runVars, localVars, genVars, convVars, stepVars, mcpVars, evalVars>>

\* run_step has returned:  steps += 1 ; the run is completed or goes on
SessStepEnd ==
    /\ t_pc = "step_end"
    /\ t_steps' = t_steps + 1
    /\ t_pc' \in {"returned", "loop"}
    /\ UNCHANGED <<t_max_steps, t_cached, t_calls, t_op, t_open, t_next, t_log>>
    /\ UNCHANGED <<runVars, localVars, genVars, convVars, stepVars, mcpVars, evalVars>>

SessNext ==
    \/ SessLoopHead
    \/ SessGetTools
    \/ SessSpawn
    \/ SessInitialize
    \/ SessHandshake
    \/ SessRequest
    \/ SessExit
    \/ SessOpEnd
    \/ SessGenerate
    \/ SessGenerated
    \/ SessDispatch
    \/ SessLocalDone
    \/ SessStepEnd

\* the components at rest
RunIdle ==
    /\ pc = "idle" /\ max_steps = 0 /\ base_url = <<>> /\ prior = NoPrior
    /\ conversation = <<>> /\ convBound = FALSE /\ stepsBound = FALSE /\ steps = 0
    /\ available_tools = [cached |-> FALSE, names |-> <<>>] /\ mcp_tool_names = {}
    /\ tool_calls = <<>> /\ tc_index = 1 /\ result = NoResult /\ escaped = FALSE
    /\ failure = "none" /\ failStep = 0 /\ snap = NoSnap /\ genCalls = 0 /\ listCalls = 0
    /\ script = <<>> /\ dispatchLog = <<>> /\ stepStartLen = 0
LocalIdle == fs = InitialFs /\ last = NoCall /\ ops = 0
GenIdle ==
    /\ gpc = <<>> /\ semaphore = 1 /\ last_request_time = [set |-> FALSE, t |-> 0]
    /\ now = 0 /\ wake = <<>> /\ requests = <<>>

ConvIdle == ConvInit
StepIdle ==
    /\ s_pc = "idle" /\ s_provider_tools = <<>> /\ s_allowed_tools = AllowAll
    /\ s_mcp_tools = [called |-> FALSE, names |-> <<>>]
    /\ s_names = {} /\ s_tool_calls = <<>> /\ s_index = 1
    /\ s_conversation = <<>> /\ s_log = <<>>

McpIdle ==
    /\ m_base_url = <<>> /\ m_allowed_tools = AllowAll /\ m_default_repo_path = NoDefault
    /\ m_provider_tools = <<>> /\ m_last = NoMcpCall /\ m_ops = 0
EvalIdle == e_repo = {} /\ e_last = NoCheck /\ e_ops = 0

SessIdle ==
    /\ t_pc = "idle" /\ t_max_steps = 0 /\ t_steps = 0 /\ t_cached = FALSE /\ t_calls = <<>>
    /\ t_op = NoSessionOp /\ t_open = {} /\ t_next = 0 /\ t_log = <<>>

Init == RunInit /\ LocalIdle /\ GenIdle /\ ConvIdle /\ StepIdle /\ McpIdle /\ EvalIdle /\ SessIdle

Next == RunNext

\* run_task, one call
Spec == Init /\ [][Next]_vars

\* run_task when every call it waits for returns or raises
FairSpec == Spec /\ WF_vars(Next)

\* calls to the local tool executor
InitLocal == RunIdle /\ LocalInit /\ GenIdle /\ ConvIdle /\ StepIdle /\ McpIdle /\ EvalIdle /\ SessIdle

SpecLocal == InitLocal /\ [][LocalNext]_vars

\* tasks calling generate on one ModelClient
InitGen == RunIdle /\ LocalIdle /\ GenInit /\ ConvIdle /\ StepIdle /\ McpIdle /\ EvalIdle /\ SessIdle

SpecGen == InitGen /\ [][GenNext]_vars

\* operations on one conversation and on the list its  messages  returns
InitConv == RunIdle /\ LocalIdle /\ GenIdle /\ ConvInit /\ StepIdle /\ McpIdle /\ EvalIdle /\ SessIdle

SpecConv == InitConv /\ [][ConvNext]_vars

\* one call of run_step, with every kind of tool call and of result
InitStep == RunIdle /\ LocalIdle /\ GenIdle /\ ConvIdle /\ StepInit /\ McpIdle /\ EvalIdle /\ SessIdle

SpecStep == InitStep /\ [][StepNext]_vars

\* calls to one MCPToolClient, with every kind of address and of arguments
InitMcp == RunIdle /\ LocalIdle /\ GenIdle /\ ConvIdle /\ StepIdle /\ McpInit /\ EvalIdle /\ SessIdle

SpecMcp == InitMcp /\ [][McpNext]_vars

\* calls of check_compile on one repository
InitEval == RunIdle /\ LocalIdle /\ GenIdle /\ ConvIdle /\ StepIdle /\ McpIdle /\ EvalInit /\ SessIdle

SpecEval == InitEval /\ [][EvalNext]_vars

\* the remote operations of one run, stage by stage
InitSess == RunIdle /\ LocalIdle /\ GenIdle /\ ConvIdle /\ StepIdle /\ McpIdle /\ EvalIdle /\ SessInit

SpecSess == InitSess /\ [][SessNext]_vars

\* ------------------------------------------------------------------ properties of run_task
IsCompleted(r) == r.success /\ r.error.kind = "none"
IsExhausted(r) == ~r.success /\ r.error.kind = "budget"
IsFailed(r) == ~r.success /\ r.error.kind = "exception"

BudgetError == [kind |-> "budget", n |-> max_steps, what |-> "none"]

\* a stored message holds a completion phrase, whatever the case of its letters
MessageHasPhrase(m) ==
    \E phrase \in completion_phrases : Contains(Lower(m.content), phrase)

\* the message the model generated on step k, as stored
ModelMessage(k) == conversation[script[k].at]

\* a measure of the work run_task has left: the iterations left, and the
\* statements and tool calls left in the current one
IterationWeight == MaxCalls + 5

Rank ==
    LET left == (max_steps - steps) * IterationWeight
    IN CASE pc = "done" -> 0
         [] pc = "except" -> 1
         [] pc = "config" -> (max_steps + 1) * IterationWeight + 5
         [] pc = "clients" -> (max_steps + 1) * IterationWeight + 4
         [] pc = "loop_init" -> (max_steps + 1) * IterationWeight + 3
         [] pc = "loop" -> left + IterationWeight + 2
         [] pc = "get_tools" -> left + IterationWeight + 1
         [] pc = "generate" -> left + IterationWeight
         [] pc = "dispatch" -> left + 4 + (Len(tool_calls) - tc_index)
         [] pc = "step_end" -> left + 3

\* run_task has returned, or has a next statement to run (StepEnd has no
\* condition but its position)
NotStuck ==
    \/ pc \in {"done", "step_end"}
    \/ ENABLED (GetModelConfig \/ CreateClients \/ CreateConversation \/ LoopHead
                \/ GetAvailableTools \/ Generate \/ DispatchToolCall \/ ExceptHandler)

\* C1: when every call run_task waits for returns or raises, run_task
\* finishes: it is never stuck before it has returned and every statement
\* lowers a natural-valued measure of the work left.  It finishes in exactly
\* one of Completed, Exhausted and Failed, no more than max_steps steps are
\* started, and neither the counter nor result.steps exceeds max_steps.
C1_BoundedTermination ==
    /\ [][Rank' < Rank]_vars
    /\ [](/\ Rank \in Nat
          /\ NotStuck
          /\ steps <= max_steps
          /\ genCalls <= max_steps
          /\ pc = "done" =>
               /\ result.returned
               /\ result.steps <= max_steps
               /\ Cardinality({o \in {"completed", "exhausted", "failed"} :
                     \/ o = "completed" /\ IsCompleted(result)
                     \/ o = "exhausted" /\ IsExhausted(result)
                     \/ o = "failed" /\ IsFailed(result)}) = 1)

\* a run that used its whole budget of MaxSteps steps and returned
C1_Witness ==
    pc = "done" /\ result.returned /\ max_steps = MaxSteps /\ result.steps = MaxSteps
    /\ IsExhausted(result)

\* C2: when the model issues no tool calls and its message holds a
\* completion phrase for the first time on step k, no generation call
\* follows step k and run_task returns success=true, steps=k and no error.
C2_CompletionAtStepK ==
    \A k \in 1..Len(script) :
        ( /\ \A i \in 1..k : script[i].payload.tool_calls = <<>>
          /\ MessageHasPhrase(ModelMessage(k))
          /\ \A j \in 1..(k - 1) : ~MessageHasPhrase(ModelMessage(j)) )
        => /\ Len(script) = k
           /\ genCalls = k
           /\ k <= max_steps
           /\ pc \in {"step_end", "done"}
           /\ pc = "done" => result = DevAgentResult(TRUE, k, conversation, NoError)

\* the phrase came on step 2, in mixed case, after a step without it
C2_Witness ==
    /\ pc = "done" /\ result.success /\ result.steps = 2 /\ Len(script) = 2
    /\ \A i \in 1..2 : script[i].payload.tool_calls = <<>>
    /\ ~MessageHasPhrase(ModelMessage(1))
    /\ ModelMessage(2).content = S_TaskCompleted

\* C3: if no message of the model holds a completion phrase and neither the
\* catalog fetch nor a generation fails, run_task makes exactly max_steps
\* steps and returns success=false, steps=max_steps and the budget error.
C3_BudgetExhaustion ==
    ( /\ pc = "done"
      /\ failure = "none"
      /\ \A i \in 1..Len(script) : ~MessageHasPhrase(ModelMessage(i)) )
    => /\ result = DevAgentResult(FALSE, max_steps, conversation, BudgetError)
       /\ genCalls = max_steps

\* C4: no exception leaves run_task; whatever fails, it returns a
\* DevAgentResult with success, steps, conversation and error.
C4_NoExceptionEscapes ==
    /\ ~escaped
    /\ pc = "done" =>
         /\ result.returned
         /\ result.success \in BOOLEAN
         /\ result.steps \in 0..max_steps
         /\ result.error.kind \in {"none", "budget", "exception"}
         /\ failure # "none" => IsFailed(result) /\ result.error.what = failure

\* the configuration failed and a result was returned all the same
C4_Witness ==
    pc = "done" /\ failure = "config" /\ result.returned /\ IsFailed(result)

\* C5: when the catalog fetch or the generation raises during step k, the
\* run ends in Failed with steps=k-1 and an error; the transcript returned is
\* the one of that moment, and no generation, tool or list call follows.
C5_FatalStepFailure ==
    failure \in {"catalog", "generation"} =>
        /\ conversation = snap.conv
        /\ genCalls = snap.genCalls
        /\ listCalls = snap.listCalls
        /\ Len(dispatchLog) = snap.dispatched
        /\ pc \in {"except", "done"}
        /\ pc = "done" =>
             result = DevAgentResult(FALSE, failStep - 1, snap.conv,
                                     [kind |-> "exception", n |-> 0, what |-> failure])

\* the generation of step 2 raised, after a first step with a tool call
C5_Witness ==
    /\ pc = "done" /\ failure = "generation" /\ failStep = 2
    /\ result.steps = 1 /\ Len(result.conversation) >= 4

\* an address without its path tail
LacksPathTail(url) == url = Url_no_tail

\* C6: with an address that lacks its path tail run_task fails with
\* steps=0 before any generation call; and no generation call is issued
\* before the catalog fetch has succeeded.
C6_MalformedAddressFails ==
    /\ LacksPathTail(base_url) =>
         /\ genCalls = 0
         /\ pc = "done" => IsFailed(result) /\ result.steps = 0
    /\ genCalls > 0 => available_tools.cached

\* the log entries of the tool calls of the step that just ended
StepLog == SubSeq(dispatchLog, Len(dispatchLog) - Len(tool_calls) + 1, Len(dispatchLog))

\* C7: a step with n tool calls appends n+1 messages, the assistant message
\* and then one result message per call in the order of the calls,
\* whichever calls fail; a failing call never makes run_step raise.
C7_PerCallIsolation ==
    /\ failure # "tool"
    /\ pc = "dispatch" => Len(conversation) = stepStartLen + tc_index
    /\ pc = "step_end" =>
         LET n == Len(tool_calls)
         IN /\ Len(conversation) = stepStartLen + n + 1
            /\ script[Len(script)].at = stepStartLen + 1
            /\ script[Len(script)].payload.tool_calls = tool_calls
            /\ Len(dispatchLog) >= n
            /\ \A i \in 1..n :
                 LET e == StepLog[i]
                     m == conversation[stepStartLen + 1 + i]
                 IN /\ e.index = i /\ e.call = tool_calls[i] /\ e.step = steps + 1
                    /\ m.role = "assistant"
                    /\ StartsWith(m.content, <<"Tool result:\n">>)
                    /\ e.outcome.kind = "raise" =>
                         m.content = <<"Tool result:\n", "Error executing tool ">>
                                     \o ReprToolCall(tool_calls[i]) \o <<":", " ">>
                                     \o e.outcome.err
                    /\ e.outcome.kind = "blocks" =>
                         m.content = <<"Tool result:\n">> \o e.outcome.blocks[1].data

\* a step with two calls: the first raised, the second returned its blocks
C7_Witness ==
    /\ pc = "step_end" /\ Len(tool_calls) = 2
    /\ StepLog[1].outcome.kind = "raise"
    /\ StepLog[2].outcome.kind = "blocks"

\* ------------------------------------------------------------------ properties of the local tools
\* the path is the root or below it, component by component
UnderRoot(path) ==
    Len(path) >= Len(repo_root) /\ SubSeq(path, 1, Len(repo_root)) = repo_root

\* where a path argument leads once joined to the root and resolved
Canonical(relative) == ResolveDots(<<>>, JoinPath(repo_root, relative))

PathTools == {"list_files", "read_file", "write_file", "apply_unified_diff"}

\* the part of a filesystem that lies outside the root
Outside(f) ==
    [dirs |-> {d \in f.dirs : ~UnderRoot(d)},
     files |-> {e \in f.files : ~UnderRoot(e.path)}]

\* C8: a call of a path-taking local tool whose path argument resolves to
\* neither the root nor a descendant of it is rejected with a path-escape
\* error, and it reads, creates and writes nothing outside the root.
C8_FilesystemSandbox ==
    ( /\ last.called
      /\ last.name \in PathTools
      /\ last.args.has_path
      /\ ~UnderRoot(Canonical(last.args.path)) )
    => /\ last.raises /\ last.exc = "PathEscape"
       /\ \A q \in last.touched : UnderRoot(q)
       /\ Outside(fs) = Outside(last.before)

\* C9: a call of one of the six local capabilities returns text content
\* blocks and does not raise, whatever its arguments and whatever goes wrong.
C9_LocalToolsNeverRaise ==
    (last.called /\ last.name \in LocalToolNames)
    => /\ ~last.raises
       /\ last.blocks # <<>>
       /\ \A i \in 1..Len(last.blocks) : last.blocks[i].type = "text"

\* ------------------------------------------------------------------ properties of the model client
\* C10: at most one generation request of a ModelClient is in flight, also
\* with several concurrent callers: while one caller is inside the gate, from
\* entering it to the return or failure of its request, no other caller is,
\* and the semaphore counts them.
C10_OneRequestInFlight ==
    /\ Cardinality({c \in Callers : gpc[c] = "inflight"}) <= 1
    /\ Cardinality(Holders) <= 1
    /\ semaphore = 1 - Cardinality(Holders)

\* one caller's request is in flight while another caller waits at the gate
C10_Witness ==
    \E c, d \in Callers : gpc[c] = "inflight" /\ gpc[d] = "waiting"

\* C11: any two consecutive generation requests sent through one ModelClient
\* are at least the minimum interval apart, whether the earlier one returned
\* or raised.
C11_MinimumInterval ==
    \A i \in 1..(Len(requests) - 1) :
        requests[i + 1].at - requests[i].at >= min_interval

\* ------------------------------------------------------------------ properties of the conversation
IsPrefix(a, b) == Len(a) <= Len(b) /\ SubSeq(b, 1, Len(a)) = a

\* the operations of the Conversation class
ConversationOps ==
    {"append", "messages", "to_json", "from_json", "save", "load", "register", "unregister"}

\* C12: the conversation is append-only: across every operation of the
\* conversation (append, messages, to_json, from_json, save, load, register and
\* unregister observer) the stored sequence before is a prefix of the stored
\* sequence after; nothing is deleted, reordered or changed in place.
C12_AppendOnly ==
    [][c_last'.op \in ConversationOps => IsPrefix(Stored, Stored')]_vars

\* an append that stored two messages on top of a history, with an observer
\* registered and a serialisation made before
C12_Witness ==
    /\ c_last.op = "append"
    /\ c_last.stored >= 1
    /\ Len(c_messages) >= c_last.stored + 2
    /\ c_observers # <<>>
    /\ c_text.set

\* the flattening rule, as stated: the parts joined with "\n", a text part
\* giving its text and any other part its string form
StringFormOfPart(part) == <<"{'type': 'image'}">>
RECURSIVE FlattenedParts(_)
FlattenedParts(parts) ==
    IF parts = <<>> THEN <<>>
    ELSE (IF Head(parts).type = "text" THEN Head(parts).text ELSE StringFormOfPart(Head(parts)))
         \o (IF Len(parts) > 1 THEN <<"\n">> \o FlattenedParts(Tail(parts)) ELSE <<>>)

FlattenedContent(raw) ==
    IF raw.kind = "list" THEN FlattenedParts(raw.parts)
    ELSE IF raw.kind = "none" THEN <<"None">>
    ELSE raw.s

\* the messages an append stored
StoredByLast == Len(c_messages) - c_last.stored

\* C13: every stored message has one of the four roles, and an accepted input
\* is stored, and returned by messages, with the role given and the content
\* flattened by the rule (a list: its parts joined with "\n"; anything else:
\* its string form).
C13_StorageInvariant ==
    /\ \A i \in 1..Len(c_messages) :
          Stored[i].role \in {"system", "user", "assistant", "tool"}
    /\ c_last.op = "append" =>
          /\ ~c_last.raised => StoredByLast = Len(c_last.args)
          /\ \A i \in 1..StoredByLast :
                /\ Stored[c_last.stored + i].role = c_last.args[i].role
                /\ Stored[c_last.stored + i].content = FlattenedContent(c_last.args[i].content)
    /\ c_last.op = "messages" =>
          [i \in 1..Len(c_view.items) |-> c_heap[c_view.items[i]]] = Stored

\* messages is called after an append that stored a list content and a None content
C13_Witness ==
    /\ c_last.op = "messages"
    /\ \E i, j \in 1..Len(c_view.items) :
          /\ c_heap[c_view.items[i]].content = <<"a", "\n", "{'type': 'image'}", "\n", "b">>
          /\ c_heap[c_view.items[j]].content = <<"None">>

\* C14: serialisation round trip: from_json(c.to_json()) holds the messages
\* of c, one by one and in order, with role, content, tool_call_id and name;
\* the same for save followed by load.
C14_RoundTrip ==
    /\ LET back == from_json(to_json(Stored))
       IN ~back.raised /\ back.messages = Stored
    /\ c_last.op = "from_json" /\ to_json(Stored) = c_text.text =>
          ~c_loaded.raised /\ c_loaded.messages = Stored
    /\ c_last.op = "load" /\ c_file.set /\ to_json(Stored) = c_file.text =>
          ~c_loaded.raised /\ c_loaded.messages = Stored

\* a conversation with a quote, a backslash and a newline in a content, and
\* a message with tool_call_id and name, is saved and loaded
C14_Witness ==
    /\ c_last.op = "load"
    /\ c_file.set
    /\ ~c_loaded.raised
    /\ \E i, j \in 1..Len(c_loaded.messages) :
          /\ c_loaded.messages[i].content = S_quoted
          /\ c_loaded.messages[j].tool_call_id = "call_1"
          /\ c_loaded.messages[j].name = "read_file"

\* a message that append must refuse
Refused(d) == d.role \notin {"system", "user", "assistant", "tool"} \/ ~d.has_content

\* C15: appending a message with a role outside system, user, assistant, tool,
\* or without content, fails; that message is not stored and no observer is
\* notified of it (the messages before it in the same call are stored).
C15_AppendValidation ==
    c_last.op = "append" =>
        LET bad == {i \in 1..Len(c_last.args) : Refused(c_last.args[i])}
        IN bad # {} =>
              LET first == CHOOSE i \in bad : \A j \in bad : i <= j
              IN /\ c_last.raised
                 /\ StoredByLast = first - 1
                 /\ Len(c_notes) - c_last.notes = (first - 1) * Len(c_last.observers)
                 /\ \A n \in 1..Len(c_notes) : c_notes[n].stored <= Len(c_messages)
                 /\ \A n \in 1..Len(c_notes) :
                       c_notes[n].message.role \in {"system", "user", "assistant", "tool"}

\* an append with an observer registered stored one message and refused the next
C15_Witness ==
    /\ c_last.op = "append"
    /\ c_last.raised
    /\ Len(c_last.args) = 3
    /\ StoredByLast = 1
    /\ c_last.observers # <<>>

\* C16: on each appended message every registered observer is called once,
\* with the normalised message, in registration order and after the message
\* is stored; an observer that raises does not stop the append, nor the
\* observers after it, nor make append raise.
C16_ObserverIsolation ==
    c_last.op = "append" =>
        LET obs == c_last.observers
            n == Len(obs)
        IN /\ Len(c_notes) - c_last.notes = StoredByLast * n
           /\ \A j \in 1..StoredByLast : \A o \in 1..n :
                 LET note == c_notes[c_last.notes + (j - 1) * n + o]
                 IN /\ note.observer = obs[o]
                    /\ note.message = c_hist[c_last.stored + j]
                    /\ note.stored = c_last.stored + j
           /\ (\A i \in 1..Len(c_last.args) : ~Refused(c_last.args[i])) =>
                 ~c_last.raised /\ StoredByLast = Len(c_last.args)

\* two messages are appended while a raising observer is registered before
\* a returning one
C16_Witness ==
    /\ c_last.op = "append"
    /\ ~c_last.raised
    /\ c_last.observers = <<"o_bad", "o_ok">>
    /\ StoredByLast = 2
    /\ c_notes[Len(c_notes)].observer = "o_ok"

\* C17: the list messages returns is a snapshot: nothing a caller does to it
\* (adding or removing entries, assigning a field of a message in it) changes
\* the stored history, which stays as append stored it.
C17_MessagesSnapshot ==
    Stored = c_hist

\* ------------------------------------------------------------------ properties of one step
\* the rendering of the blocks as stated: a text block is its data, a json
\* block 2-space pretty-printed JSON, any other block "[type]: data", and the
\* renderings are joined by a blank line
RECURSIVE StatedPairs(_)
StatedPairs(pairs) ==
    <<" ", " ", "\"", Head(pairs).key, "\"", ":", " ", Head(pairs).value>>
    \o (IF Len(pairs) > 1 THEN <<",", "\n">> \o StatedPairs(Tail(pairs)) ELSE <<>>)

StatedBlock(block) ==
    IF block.type = "text" THEN block.data
    ELSE IF block.type = "json"
    THEN (IF block.json = <<>> THEN <<"{", "}">>
          ELSE <<"{", "\n">> \o StatedPairs(block.json) \o <<"\n", "}">>)
    ELSE <<"[", block.type, "]", ":", " ">> \o block.data

RECURSIVE StatedRendering(_)
StatedRendering(blocks) ==
    IF blocks = <<>> THEN <<>>
    ELSE StatedBlock(Head(blocks))
         \o (IF Len(blocks) > 1 THEN <<"\n", "\n">> \o StatedRendering(Tail(blocks)) ELSE <<>>)

\* the handler calls that returned blocks and whose message is stored
ReturnedCalls ==
    {i \in 1..Len(s_log) : s_log[i].outcome.kind = "blocks" /\ s_log[i].at <= Len(s_conversation)}

C19_Routing ==
    /\ \A i \in 1..Len(s_log) :
          /\ s_log[i].route \in {"remote", "local"}
          /\ s_log[i].route = "remote" <=> s_log[i].call.name \in s_names
          /\ s_log[i].call.name \in s_names \cap LocalToolNames => s_log[i].route = "remote"
          /\ s_log[i].index = i
          /\ s_log[i].call = s_tool_calls[i]
    /\ s_pc = "done" => Len(s_log) = Len(s_tool_calls)

\* a call of read_file when the catalog of the provider has a read_file too,
\* next to a call of a name the catalog does not have
C19_Witness ==
    /\ s_pc = "done"
    /\ "read_file" \in s_names
    /\ \E i, j \in 1..Len(s_log) :
          /\ s_log[i].call.name = "read_file" /\ s_log[i].route = "remote"
          /\ s_log[j].call.name = "bogus" /\ s_log[j].route = "local"

\* the calls whose name neither the catalog nor the local set has
UnknownCalls ==
    {i \in 1..Len(s_log) : s_log[i].call.name \notin (s_names \cup LocalToolNames)}

\* C20: a tool call whose name is in neither the remote catalog nor the local
\* set, a call without a name included, does not abort the step: it leaves one
\* error message in the transcript and the loop goes on to the next call.
C20_UnknownToolIsolated ==
    /\ s_pc # "raised"
    /\ \A i \in UnknownCalls :
          /\ ~s_log[i].raises
          /\ s_log[i].outcome.kind = "raise"
          /\ s_log[i].at = Len(create_initial_conversation) + 1 + i
          /\ StartsWith(s_conversation[s_log[i].at].content,
                        <<"Tool result:\n", "Error executing tool ">>)
    /\ s_pc = "done" =>
          /\ Len(s_log) = Len(s_tool_calls)
          /\ Len(s_conversation) = Len(create_initial_conversation) + 1 + Len(s_tool_calls)

\* a call without a name is followed by a call of a local tool that returns
C20_Witness ==
    /\ s_pc = "done"
    /\ Len(s_log) = 2
    /\ s_log[1].call.name = Absent
    /\ 1 \in UnknownCalls
    /\ s_log[2].call.name = "read_file"
    /\ s_log[2].outcome.kind = "blocks"

\* ------------------------------------------------------------------ C21: write_file
\* the last call is a write_file with a path under the root and a content
WriteFileCall ==
    /\ last.called
    /\ last.name = "write_file"
    /\ last.args.has_path
    /\ last.args.has_content
    /\ UnderRoot(Canonical(last.args.path))

\* the file the last call names
WriteTarget == Canonical(last.args.path)

\* overwrite=false on a path that exists
WriteRefused == last.args.overwrite = "false" /\ Exists(last.before, WriteTarget)

\* no file can be written there: the target is a directory, or the target or
\* one of its ancestors has a regular file for ancestor
Unwritable(f, path) ==
    \/ IsDir(f, path)
    \/ \E q \in Prefixes(SubSeq(path, 1, Len(path) - 1)) : IsFile(f, q)

\* the one block a returning write_file gives
WriteFileBlock(prefix) == <<TextBlock(prefix \o last.args.path)>>

ProcessNeverExits ==
    /\ last.called
    /\ last.name \in {"run_tests", "run_linter"}
    /\ last.process = "never_exits"
    /\ last.name = "run_linter" => last.args.target # "not_a_string"

\* C22: a run_tests or run_linter call whose process does not exit by itself
\* is ended by a timeout: the call is done and has returned a failure block.
C22_SubprocessTimeout ==
    ProcessNeverExits =>
        /\ last.done
        /\ ~last.raises
        /\ Len(last.blocks) = 1
        /\ last.blocks[1].type = "text"
        /\ \/ StartsWith(last.blocks[1].data, <<"[run_tests] Error running tests: ">>)
           \/ StartsWith(last.blocks[1].data, <<"[run_linter] Error running linter: ">>)

\* ------------------------------------------------------------------ C23: allow-list
\* listed is the part of catalog that satisfies keep, in the order of catalog
IsSelection(listed, catalog, keep(_)) ==
    /\ Len(listed) = Cardinality({i \in 1..Len(catalog) : keep(catalog[i])})
    /\ \E at \in [1..Len(listed) -> 1..Len(catalog)] :
          /\ \A j, k \in 1..Len(listed) : j < k => at[j] < at[k]
          /\ \A k \in 1..Len(listed) : listed[k] = catalog[at[k]] /\ keep(catalog[at[k]])

\* C23: with an allow-list, list_tools returns exactly the tools of the
\* provider whose name is in the allow-list, in the order of the provider;
\* without one it returns the whole catalog; no name outside the allow-list is
\* in the remote name set of the agent, and no call of such a name goes to the
\* provider.
C23_AllowList ==
    /\ ~s_mcp_tools.called => s_names = {}
    /\ s_mcp_tools.called =>
          /\ s_names = {s_mcp_tools.names[i] : i \in 1..Len(s_mcp_tools.names)}
          /\ IF s_allowed_tools.set
             THEN /\ IsSelection(s_mcp_tools.names, s_provider_tools,
                                 LAMBDA n : n \in s_allowed_tools.names)
                  /\ s_names \subseteq s_allowed_tools.names
                  /\ \A i \in 1..Len(s_log) :
                        s_log[i].route = "remote" => s_log[i].call.name \in s_allowed_tools.names
             ELSE s_mcp_tools.names = s_provider_tools

\* the allow-list keeps two of the four tools of the provider, in the
\* provider's order, names a tool the provider does not have, and a call of
\* read_file, which the provider has and the allow-list has not, ran locally
C23_Witness ==
    /\ s_pc = "done"
    /\ s_provider_tools = <<"git_log", "read_file", "git_status", "git_diff">>
    /\ s_allowed_tools.set
    /\ "git_push" \in s_allowed_tools.names
    /\ s_mcp_tools.names = <<"git_log", "git_status">>
    /\ \E i \in 1..Len(s_log) : s_log[i].call.name = "read_file" /\ s_log[i].route = "local"

\* ------------------------------------------------------------------ C30: tool-call arguments
\* C30: the handler of every tool call is called with a JSON object: the
\* object itself when arguments is an object, the parsed object when it is a
\* JSON text, the empty object when the text does not parse, when the field
\* has another type or when it is missing; no form of arguments aborts the
\* step, every call is dispatched and leaves its message.
C30_ArgumentsObject ==
    /\ s_pc # "raised"
    /\ \A i \in 1..Len(s_log) :
          LET raw == s_log[i].call.arguments
              got == s_log[i].arguments
          IN /\ got.type = "dict"
             /\ raw.type = "dict" => got = raw
             /\ raw = ArgStr(S_path_a) => got = ArgDict(<<[key |-> "path", value |-> <<"a">>]>>)
             /\ raw \in {ArgAbsent, ArgStr(S_cut_short), ArgStr(<<>>), ArgInt(<<"5">>)}
                   => got = ArgDict(<<>>)
             /\ s_log[i].call = s_tool_calls[i]
             /\ ~s_log[i].raises
    /\ s_pc = "done" =>
          /\ Len(s_log) = Len(s_tool_calls)
          /\ Len(s_conversation) = Len(create_initial_conversation) + 1 + Len(s_tool_calls)

\* ------------------------------------------------------------------ C24: default repo_path
\* the value of key in a dict kept as the sequence of its pairs
ValueOf(pairs, key) == (CHOOSE p \in {pairs[i] : i \in 1..Len(pairs)} : p.key = key).value

\* the pairs of the arguments a call was given; None has no pairs
GivenPairs == m_last.given.pairs

\* C24: with a default path configured, a remote call whose arguments have no
\* repo_path is sent with repo_path set to the default and its other
\* arguments as given, and a call that has a repo_path is sent as given;
\* with no default configured the arguments are sent as given.
C24_DefaultRepoPath ==
    (m_last.op = "call_tool" /\ m_last.is_sent) =>
        /\ m_last.sent.type = "dict"
        /\ IF m_default_repo_path.set /\ ~HasKey(GivenPairs, "repo_path")
           THEN /\ HasKey(m_last.sent.pairs, "repo_path")
                /\ ValueOf(m_last.sent.pairs, "repo_path") = m_default_repo_path.path
                /\ Len(m_last.sent.pairs) = Len(GivenPairs) + 1
                /\ \A i \in 1..Len(GivenPairs) : m_last.sent.pairs[i] = GivenPairs[i]
           ELSE m_last.sent.pairs = GivenPairs

\* with the default "/r", a call with only a path was sent with both, and
\* the session returned
C24_Witness ==
    /\ m_last.op = "call_tool"
    /\ ~m_last.raises
    /\ m_default_repo_path = [set |-> TRUE, path |-> <<"/r">>]
    /\ m_last.given = ArgDict(<<[key |-> "path", value |-> <<"a">>]>>)
    /\ m_last.sent = ArgDict(<<[key |-> "path", value |-> <<"a">>],
                               [key |-> "repo_path", value |-> <<"/r">>]>>)

\* ------------------------------------------------------------------ C25: address parsing
\* C25: for every address stdio://<executable>:-m:mcp_server_git:--repository:<path>,
\* whatever number of ":" the path holds, the child process is launched with
\* the command <executable> and the arguments -m, mcp_server_git,
\* --repository and <path>, the path as it stands in the address.
C25_AddressParsing ==
    \A e \in Executables, p \in PathTails :
        (m_last.op # "none" /\ m_base_url = StdioGitUrl(e, p)) =>
            /\ m_last.launched
            /\ m_last.command = e
            /\ m_last.args = << <<"-m">>, <<"mcp_server_git">>, <<"--repository">>, p >>

\* a call through an address whose repository path is "C::", with two ":"
\* in a row and one at its end
C25_Witness ==
    /\ m_last.op = "call_tool"
    /\ m_base_url = StdioGitUrl(<<"python">>, <<"C", ":", ":">>)
    /\ m_last.args[4] = <<"C", ":", ":">>

\* ------------------------------------------------------------------ C26: check_compile
\* no file of the repository is a Python file
NoPythonFiles == \A file \in e_repo : file.ext # "py"

\* C26: check_compile on a repository without Python files returns
\* success=True and a note that contains "No Python files found".
C26_NoPythonFiles ==
    (e_last.called /\ NoPythonFiles) =>
        /\ e_last.success
        /\ Contains(e_last.notes, S_no_python)

\* ------------------------------------------------------------------ C27, C28: what the completion check reads
\* C27: when the message the model generated on step k holds a completion
\* phrase and carries tool calls, the check after step k still reads that
\* message: once the step is counted, the run has ended completed at step k.
C27_CheckReadsModelMessage ==
    \A k \in 1..Len(script) :
        ( /\ script[k].payload.tool_calls # <<>>
          /\ MessageHasPhrase(ModelMessage(k))
          /\ steps >= k )
        => /\ pc = "done"
           /\ result = DevAgentResult(TRUE, k, conversation, NoError)

\* the messages of the prior transcript that a model generated
PriorModelMessages ==
    {prior.messages[i] : i \in {j \in 1..Len(prior.messages) : prior.messages[j].role = "assistant"}}

\* C28: a completion phrase that stands only in tool-result messages never
\* makes run_task return success=true: a successful run has a message
\* generated by the model that holds a phrase.
C28_ToolOutputCannotComplete ==
    (result.returned /\ result.success) =>
        \/ \E k \in 1..Len(script) : MessageHasPhrase(ModelMessage(k))
        \/ \E m \in PriorModelMessages : MessageHasPhrase(m)

\* ------------------------------------------------------------------ C29: sequential dispatch
\* the entries of the dispatch log that belong to step k
LogOfStep(k) == SelectSeq(dispatchLog, LAMBDA e : e.step = k)

\* step k has made all its handler calls
StepDispatched(k) ==
    \/ k < Len(script)
    \/ k = Len(script) /\ pc \in {"step_end", "loop", "done"} /\ failure = "none"

\* C29: the tool calls of a step are executed one at a time, in the order of
\* the payload, each once; the handler of a call is started when the result
\* message of the call before it has been appended and before anything else
\* is, so that at most one call is in flight; the generation call of the
\* next step is made after the result message of the last call, on a
\* transcript that holds every result.
C29_SequentialDispatch ==
    /\ \A i \in 1..Len(dispatchLog) :
          LET e == dispatchLog[i]
          IN /\ e.step \in 1..Len(script)
             /\ e.index \in 1..Len(script[e.step].payload.tool_calls)
             /\ e.call = script[e.step].payload.tool_calls[e.index]
             /\ e.at = e.started + 1
             /\ IF e.index = 1
                THEN e.started = script[e.step].at
                ELSE /\ i > 1
                     /\ dispatchLog[i - 1].step = e.step
                     /\ dispatchLog[i - 1].index = e.index - 1
                     /\ e.started = dispatchLog[i - 1].at
    /\ \A k \in 1..Len(script) :
          /\ Len(LogOfStep(k)) <= Len(script[k].payload.tool_calls)
          /\ StepDispatched(k) => Len(LogOfStep(k)) = Len(script[k].payload.tool_calls)
          /\ k > 1 => script[k].at =
                         script[k - 1].at + Len(script[k - 1].payload.tool_calls) + 1
          /\ \A i \in 1..Len(LogOfStep(k)) :
                k < Len(script) => LogOfStep(k)[i].at < script[k + 1].at

\* a step with two different calls, the first of which failed, was followed
\* by the generation call of the next step
C29_Witness ==
    /\ Len(script) = 2
    /\ Len(LogOfStep(1)) = 2
    /\ LogOfStep(1)[1].call.name # LogOfStep(1)[2].call.name
    /\ LogOfStep(1)[1].outcome.kind = "raise"
    /\ LogOfStep(1)[2].started = LogOfStep(1)[1].at
    /\ script[2].at = LogOfStep(1)[2].at + 1


\* ------------------------------------------------------------------ C31: tool_calls kept on the stored message
\* the tool_calls field of a stored message, <<>> where it has none
StoredToolCalls(m) == IF "tool_calls" \in DOMAIN m THEN m.tool_calls ELSE <<>>

\* C31: when the payload of a step has tool calls, the assistant message
\* the step stored in the conversation carries that tool_calls field, so it
\* is in conversation.messages and in the history of later generation calls.
C31_ToolCallsStored ==
    \A k \in 1..Len(script) :
        script[k].payload.tool_calls # <<>> =>
            StoredToolCalls(ModelMessage(k)) = script[k].payload.tool_calls

\* ------------------------------------------------------------------ C32: error message tagged with the call id
\* the dispatched calls whose handler raised and whose error message is stored
FailedCalls ==
    {i \in 1..Len(dispatchLog) : dispatchLog[i].outcome.kind = "raise" /\ dispatchLog[i].at > 0}

\* C32: the error tool-result message stored for a tool call that raised
\* carries a tool_call_id equal to the id of the failed call.
C32_ErrorMessageTagged ==
    \A i \in FailedCalls :
        conversation[dispatchLog[i].at].tool_call_id = dispatchLog[i].call.id


\* ------------------------------------------------------------------ C33: transport session per call

\* the stages of an operation that failed: some of the stages in their
\* order, and Close after them when a child process had been started
FailedTrace(trace) ==
    \E n \in 2..(Len(SessionStages) - 1) :
        LET stages == SubSeq(SessionStages, 1, n)
        IN trace = IF n >= 3 THEN Append(stages, "Close") ELSE stages

\* C33: each remote operation goes Disconnected, spawn, Connected,
\* Initialize, Ready, request, Close on a session of its own (an operation
\* that fails leaves that course at the failing stage and still closes what
\* it opened); the session is closed when the operation returns or raises,
\* at most one session is open at any time, and none is open while a
\* generation call or a local tool call is running or after run_task has
\* returned.
C33_SessionPerCall ==
    /\ Cardinality(t_open) <= 1
    /\ t_pc \in {"generating", "local", "returned"} => t_open = {}
    /\ t_open # {} => t_pc = "remote" /\ t_open = {t_op.session}
    /\ t_pc = "remote" => IsPrefix(SubSeq(t_op.trace, 1, Len(t_op.trace) - 1), SessionStages)
    /\ \A i \in 1..Len(t_log) :
          LET e == t_log[i]
          IN /\ e.open = {}
             /\ IF e.raises THEN FailedTrace(e.trace) ELSE e.trace = SessionStages
             /\ \A j \in 1..Len(t_log) :
                   (i # j /\ e.session # 0) => t_log[j].session # e.session

\* a run has returned after a list_tools that returned, a call_tool that
\* failed at the handshake and a call_tool that returned, a local call
\* having run in between
C33_Witness ==
    /\ t_pc = "returned"
    /\ Len(t_log) = 3
    /\ t_log[1].name = "list_tools" /\ ~t_log[1].raises
    /\ t_log[2].name = "call_tool" /\ t_log[2].raises
    /\ t_log[2].trace = <<"Disconnected", "spawn", "Connected", "Initialize", "Close">>
    /\ t_log[3].name = "call_tool" /\ ~t_log[3].raises
    /\ t_steps = 2

\* ------------------------------------------------------------------ C34: the catalog is fetched once
\* a step of the run has gone past its catalog retrieval
CatalogRetrieved ==
    \/ pc \in {"generate", "dispatch", "step_end"}
    \/ steps > 0
    \/ failStep > 0

\* the merged catalog of the run
MergedCatalog == ListToolsFilter(ProviderTools, AllowAll) \o LOCAL_TOOL_SPECS

\* C34: over all steps of one run list_tools is invoked at most once, and
\* exactly once when a step has started; every generation call of the run
\* is given the same catalog, the remote tools followed by the six local
\* tools.
C34_CatalogFetchedOnce ==
    /\ listCalls <= 1
    /\ CatalogRetrieved => listCalls = 1
    /\ pc = "generate" => available_tools.names = MergedCatalog
    /\ \A k \in 1..Len(script) : script[k].tools = MergedCatalog
    /\ Len(LOCAL_TOOL_SPECS) = 6
    /\ {LOCAL_TOOL_SPECS[i] : i \in 1..6} = LocalToolNames

\* two steps have made their generation calls
C34_Witness ==
    /\ Len(script) = 2
    /\ steps = 1
    /\ listCalls = 1
    /\ script[1].tools = script[2].tools
    /\ Len(script[2].tools) = 7


\* ------------------------------------------------------------------ C35: the prior transcript is kept
\* C35: whenever run_task is given a prior transcript, the conversation of
\* the returned result starts with the messages of the prior transcript in
\* their order, followed by the new user message, in every outcome, a
\* failure before the first step included.
C35_PriorTranscriptKept ==
    (result.returned /\ prior.given) =>
        IsPrefix(Append(prior.messages, StoredMessage("user", task_description)),
                 result.conversation)

\* ------------------------------------------------------------------ C36: step accounting
\* the messages of a transcript that the model generated in this run
ModelMessagesIn(messages) == {k \in 1..Len(script) : script[k].at \in 1..Len(messages)}

\* C36: in every result of run_task, steps equals the number of assistant
\* messages generated by the model that were appended to the conversation
\* during this run, and 0 <= steps <= max_steps.
C36_StepAccounting ==
    result.returned =>
        /\ result.steps = Cardinality(ModelMessagesIn(result.conversation))
        /\ result.steps = Len(script)
        /\ 0 <= result.steps
        /\ result.steps <= max_steps

\* a run failed in its second step, after a first step with a tool call
C36_Witness ==
    /\ result.returned /\ ~result.success
    /\ result.error.kind = "exception"
    /\ failStep = 2
    /\ result.steps = 1
    /\ Len(dispatchLog) = 1
    /\ Len(result.conversation) = Len(create_initial_conversation) + 2

\* ------------------------------------------------------------------ C37: result consistency
\* C37: every result of run_task with success=true has no error and
\* steps >= 1, and every result with success=false has an error value set.
C37_ResultConsistency ==
    result.returned =>
        IF result.success
        THEN result.error = NoError /\ result.steps >= 1
        ELSE result.error # NoError /\ result.error.kind \in {"budget", "exception"}

\* a run completed at its second step
C37_Witness ==
    /\ result.returned
    /\ result.success
    /\ result.steps = 2
    /\ result.error = NoError

\* ------------------------------------------------------------------ C38: partial batch append
\* the place of the first message of a batch that must be refused, 0 without one
FirstRefused(ds) ==
    LET bad == {i \in 1..Len(ds) : Refused(ds[i])}
    IN IF bad = {} THEN 0 ELSE CHOOSE i \in bad : \A j \in bad : i <= j

\* the stored form of an accepted batch, message by message
NormalizedBatch(ds, n) == [j \in 1..n |-> message_from_dict(ds[j]).msg]

\* C38: when append, or the constructor, is given several messages and
\* message k is the first invalid one, exactly the messages before k are
\* stored and announced to the observers, in order, and then the call fails;
\* message k and the messages after it are neither stored nor announced.
C38_PartialBatchAppend ==
    LET k == FirstRefused(c_last.args)
        before == NormalizedBatch(c_last.args, k - 1)
        obs == c_last.observers
        n == Len(obs)
    IN /\ (c_last.op = "append" /\ k > 0) =>
             /\ c_last.raised
             /\ Len(c_messages) = c_last.stored + k - 1
             /\ SubSeq(Stored, c_last.stored + 1, Len(c_messages)) = before
             /\ Len(c_notes) = c_last.notes + (k - 1) * n
             /\ \A j \in 1..(k - 1) : \A o \in 1..n :
                   LET note == c_notes[c_last.notes + (j - 1) * n + o]
                   IN /\ note.observer = obs[o]
                      /\ note.message = before[j]
                      /\ note.stored = c_last.stored + j
       /\ (c_last.op = "construct" /\ k > 0) =>
             /\ c_loaded.raised
             /\ c_loaded.messages = before

\* after a constructor call that failed at its second message, an append of
\* three messages with two observers registered stored and announced the
\* first and failed at the second
C38_Witness ==
    /\ c_last.op = "append"
    /\ c_last.raised
    /\ c_last.args = <<D_tool, D_bad_role, D_none>>
    /\ c_last.observers = <<"o_bad", "o_ok">>
    /\ Len(c_notes) = c_last.notes + 2
    /\ Len(c_messages) = c_last.stored + 1
    /\ c_loaded.set /\ c_loaded.raised /\ Len(c_loaded.messages) = 1

====
